---------------------------- MODULE Spec2Model ----------------------------
(***************************************************************************)
(* Falcon-controlled Algorand accounts: derivation of the logic signature  *)
(* and its address from a Falcon public key (package algorand), the CLI    *)
(* front end that loads the key material (package cli), and the atomic     *)
(* group that Send builds, signs and submits.                              *)
(*                                                                         *)
(* Bytes are the integers 0..255.  SHA-512/256 and the edwards25519 point  *)
(* decoding are external primitives: a digest is the term over its         *)
(* preimage, and which digests decode to curve points is an oracle chosen  *)
(* in the initial state and never changed afterwards.                      *)
(***************************************************************************)
EXTENDS Integers, Sequences, FiniteSets, TLC

VARIABLES
    nonPoints,   \* oracle: the <<public key, counter byte>> preimages whose address is no curve point
    algodURL,    \* environment variable ALGOD_URL ("" when unset or empty)
    algodUp,     \* whether the ledger node behind the endpoint answers requests
    last,        \* the call that returned last: its operation, input and outcome
    fastSeen,    \* per public key, the outcomes DerivePQLogicSig has returned so far
    round,       \* the last round of the ledger
    send,        \* the call of Send in progress: its position, locals and result
    conc,        \* calls running at the same time: their positions, locals and results
    fsys,        \* the directory written to, its files, and the calls of writeFileAtomic
    cli          \* the run of the command line: its command, key material and result

vars == <<nonPoints, fsys, conc, algodURL, algodUp, last, fastSeen, round, send, cli>>

sendVars == <<round, send, cli>>

---------------------------------------------------------------------------
(* Falcon public keys: falcon.PublicKey is a [1793]byte array *)

PublicKeySize == 1793

ZeroKey == [i \in 1..PublicKeySize |-> 0]
RampKey == [i \in 1..PublicKeySize |-> i % 256]

Keys == <<ZeroKey, RampKey>>

KeyIds == 1..Len(Keys)

---------------------------------------------------------------------------
(* Errors *)

ErrInvalidFalconPublicKey == "unsuitable Falcon public key for Algorand address"

NoLsig == [Logic |-> <<>>, Args |-> <<>>]

---------------------------------------------------------------------------
(* External primitives *)

\* The number of a public key of Keys, 0 for any other byte sequence
KeyNumber(bytes) ==
    IF \E k \in KeyIds : Keys[k] = bytes
    THEN CHOOSE k \in KeyIds : Keys[k] = bytes
    ELSE 0

\* The preimage field the keys sit in: the bytes from offset 11 up to the last
\* but one.
KeyField(logic) == SubSeq(logic, 12, Len(logic) - 1)

\* crypto.LogicSigAddress: SHA-512/256 of "Program" followed by the logic
\* bytes.  The digest is the term over its preimage, written short: the first
\* 11 bytes, the number of the key that follows (the key bytes themselves when
\* they are no key of Keys) and the last byte.
LogicSigAddress(logic) ==
    IF Len(logic) = 12 + PublicKeySize
    THEN LET k == KeyNumber(KeyField(logic))
         IN  [tag |-> "Program", head |-> SubSeq(logic, 1, 11), key |-> k,
              rest |-> IF k = 0 THEN KeyField(logic) ELSE <<>>,
              tail |-> <<logic[Len(logic)]>>]
    ELSE [tag |-> "Program", head |-> logic, key |-> 0, rest |-> <<>>, tail |-> <<>>]

\* edwards25519 point decoding of the 32 address bytes, by the oracle: the
\* oracle is indexed by the key and by the byte at offset 4 of the preimage.
isOnTheCurve(address) ==
    ~ /\ address.tag = "Program"
      /\ Len(address.head) = 11
      /\ <<address.key, address.head[5]>> \in nonPoints

---------------------------------------------------------------------------
(* address.go: the precompiled logic signature, patched *)

\* Variant: the counter written one byte early, over the bytecblock entry length
patchPrecompiledPQlogicsig_offset3(publicKey, counter) ==
    LET precompiled == <<12, 38, 1, 1, 0, 49, 23, 45, 128, 129, 14>>
        patched == [precompiled EXCEPT ![4] = counter]
    IN  (patched \o publicKey) \o <<133>>

patchPrecompiledPQlogicsig(publicKey, counter) ==
    LET precompiled == <<12, 38, 1, 1, 0, 49, 23, 45, 128, 129, 14>>
        patched == [precompiled EXCEPT ![5] = counter]
    IN  (patched \o publicKey) \o <<133>>

maxIterations == 256

---------------------------------------------------------------------------
(* fmt and encoding/hex, over hexadecimal digits 0..15 *)

\* hex.EncodeToString: two digits per byte, high nibble first
EncodeToString(bytes) ==
    <<>> \o [i \in 1..(2 * Len(bytes)) |->
                IF i % 2 = 1 THEN bytes[(i + 1) \div 2] \div 16 ELSE bytes[i \div 2] % 16]

\* fmt.Sprintf("%02x", n): at least two digits, more when n needs them
Sprintf02x(n) ==
    IF n < 256 THEN <<n \div 16, n % 16>>
    ELSE <<n \div 256, (n \div 16) % 16, n % 16>>

---------------------------------------------------------------------------
(* TEAL source text: a sequence of lines, each an opcode, its immediate   *)
(* (a word, a template name or a 0x literal given by its digits) and the   *)
(* trailing comment.                                                       *)

Word(w) == [kind |-> "word", text |-> w]
Tmpl(name) == [kind |-> "tmpl", text |-> name]
HexLit(digits) == [kind |-> "hex", text |-> digits]

\* teal/PQlogicsigTMPL.teal
PQlogicsigTMPL == <<
    [op |-> "#pragma version", arg |-> Word("12"), comment |-> ""],
    [op |-> "bytecblock", arg |-> Tmpl("TMPL_COUNTER"), comment |-> "counter"],
    [op |-> "txn", arg |-> Word("TxID"), comment |-> ""],
    [op |-> "arg", arg |-> Word("0"), comment |-> ""],
    [op |-> "pushbytes", arg |-> Tmpl("TMPL_FALCON_PUBLIC_KEY"), comment |-> ""],
    [op |-> "falcon_verify", arg |-> Word(""), comment |-> ""] >>

\* strings.Replace(teal, name, "0x" + digits, 1) for a template name
ReplaceTmplOnce(teal, name, digits) ==
    LET hits == {i \in DOMAIN teal : teal[i].arg = Tmpl(name)}
    IN  IF hits = {} THEN teal
        ELSE LET first == CHOOSE i \in hits : \A j \in hits : i <= j
             IN  [teal EXCEPT ![first].arg = HexLit(digits)]

\* strings.ReplaceAll(teal, "0x<old> // counter", "0x<new> // counter")
ReplaceAllCounter(teal, old, new) ==
    [i \in DOMAIN teal |->
        IF teal[i].comment = "counter" /\ teal[i].arg = HexLit(old)
        THEN [teal[i] EXCEPT !.arg = HexLit(new)]
        ELSE teal[i]]

---------------------------------------------------------------------------
(* The algod ledger node (TEAL assembler) *)

\* bytes of a 0x literal; an odd number of digits does not assemble
LiteralBytes(digits) ==
    <<>> \o [i \in 1..(Len(digits) \div 2) |-> 16 * digits[2 * i - 1] + digits[2 * i]]

\* the length prefix of pushbytes and bytecblock entries (base-128 varuint)
Varuint(n) ==
    IF n < 128 THEN <<n>>
    ELSE IF n < 16384 THEN <<128 + (n % 128), n \div 128>>
    ELSE <<128 + (n % 128), 128 + ((n \div 128) % 128), n \div 16384>>

AssembleLine(line) ==
    CASE line.op = "#pragma version" -> <<12>>
      [] line.op = "bytecblock" ->
            (<<38, 1>> \o Varuint(Len(line.arg.text) \div 2)) \o LiteralBytes(line.arg.text)
      [] line.op = "txn" -> <<49, 23>>
      [] line.op = "arg" -> <<45>>
      [] line.op = "pushbytes" ->
            (<<128>> \o Varuint(Len(line.arg.text) \div 2)) \o LiteralBytes(line.arg.text)
      [] line.op = "falcon_verify" -> <<133>>

Assembles(line) ==
    \/ line.op = "#pragma version" /\ line.arg = Word("12")
    \/ line.op \in {"bytecblock", "pushbytes"} /\ line.arg.kind = "hex"
          /\ Len(line.arg.text) % 2 = 0
    \/ line.op = "txn" /\ line.arg = Word("TxID")
    \/ line.op = "arg" /\ line.arg = Word("0")
    \/ line.op = "falcon_verify"

RECURSIVE AssembleFrom(_, _)
AssembleFrom(teal, i) ==
    IF i > Len(teal) THEN <<>> ELSE AssembleLine(teal[i]) \o AssembleFrom(teal, i + 1)

\* algodClient.TealCompile(teal).Do: the program bytes, or an error
TealCompile(teal) ==
    IF ~algodUp THEN [err |-> "compile request failed", result |-> <<>>]
    ELSE IF \E i \in DOMAIN teal : ~Assembles(teal[i])
    THEN [err |-> "teal does not assemble", result |-> <<>>]
    ELSE [err |-> "nil", result |-> AssembleFrom(teal, 1)]

---------------------------------------------------------------------------
(* algoutils.go *)

ErrNoDevNetURL == "ALGOD_URL not set for DevNet"

\* Variant: DevNet served by the BetaNet endpoint when ALGOD_URL is not set
GetAlgodClient_devNetDefault(network) ==
    IF algodURL # "" THEN [err |-> "nil", url |-> algodURL]
    ELSE CASE network = "MainNet" -> [err |-> "nil", url |-> "https://mainnet-api.4160.nodely.dev"]
           [] network = "TestNet" -> [err |-> "nil", url |-> "https://testnet-api.4160.nodely.dev"]
           [] network = "BetaNet" -> [err |-> "nil", url |-> "https://betanet-api.4160.nodely.dev"]
           [] network = "DevNet" -> [err |-> "nil", url |-> "https://betanet-api.4160.nodely.dev"]

\* GetAlgodClient: the endpoint the client talks to, or an error
GetAlgodClient(network) ==
    IF algodURL # "" THEN [err |-> "nil", url |-> algodURL]
    ELSE CASE network = "MainNet" -> [err |-> "nil", url |-> "https://mainnet-api.4160.nodely.dev"]
           [] network = "TestNet" -> [err |-> "nil", url |-> "https://testnet-api.4160.nodely.dev"]
           [] network = "BetaNet" -> [err |-> "nil", url |-> "https://betanet-api.4160.nodely.dev"]
           [] network = "DevNet" -> [err |-> ErrNoDevNetURL, url |-> ""]

\* CompileLogicSig: calls counts the requests sent to the ledger node
CompileLogicSig(teal) ==
    LET algodClient == GetAlgodClient("BetaNet")
    IN  IF algodClient.err # "nil"
        THEN [err |-> algodClient.err, lsig |-> NoLsig, calls |-> 0]
        ELSE LET result == TealCompile(teal)
             IN  IF result.err # "nil"
                 THEN [err |-> result.err, lsig |-> NoLsig, calls |-> 1]
                 ELSE [err |-> "nil", lsig |-> [Logic |-> result.result, Args |-> <<>>],
                       calls |-> 1]

---------------------------------------------------------------------------
(* address.go: derivation by compilation *)

\* One pass of the loop body of DerivePQLogicSigWithCompilation: done tells
\* that the function returned in this pass, teal is the source text the next
\* pass starts with.
CompileCandidate(teal, counter) ==
    LET c == CompileLogicSig(teal)
    IN  IF c.err # "nil"
        THEN [done |-> TRUE, err |-> c.err, lsig |-> NoLsig, teal |-> teal,
              tried |-> counter + 1, calls |-> c.calls]
        ELSE IF ~isOnTheCurve(LogicSigAddress(c.lsig.Logic))
        THEN [done |-> TRUE, err |-> "nil", lsig |-> c.lsig, teal |-> teal,
              tried |-> counter + 1, calls |-> c.calls]
        ELSE [done |-> FALSE, err |-> "nil", lsig |-> NoLsig,
              teal |-> ReplaceAllCounter(teal, Sprintf02x(counter), Sprintf02x(counter + 1)),
              tried |-> counter + 1, calls |-> c.calls]

\* The loop over the counters lo..hi-1 in increasing order, split in halves as
\* DeriveLoop is; the upper half starts from the text the lower half left.
RECURSIVE CompileLoop(_, _, _)
CompileLoop(teal, lo, hi) ==
    IF hi <= lo
    THEN [done |-> FALSE, err |-> "nil", lsig |-> NoLsig, teal |-> teal, tried |-> lo,
          calls |-> 0]
    ELSE IF hi = lo + 1 THEN CompileCandidate(teal, lo)
    ELSE LET mid == (lo + hi) \div 2
             lower == CompileLoop(teal, lo, mid)
         IN  IF lower.done THEN lower
             ELSE LET upper == CompileLoop(lower.teal, mid, hi)
                  IN  [upper EXCEPT !.calls = @ + lower.calls]

CompileResult(loop) ==
    IF loop.done
    THEN [err |-> loop.err, lsig |-> loop.lsig, tried |-> loop.tried,
          calls |-> loop.calls]
    ELSE [err |-> ErrInvalidFalconPublicKey, lsig |-> NoLsig,
          tried |-> loop.tried, calls |-> loop.calls]

\* Variant: the counter line rendered as 0x01 before the first pass
DerivePQLogicSigWithCompilation_from01(publicKey) ==
    LET pubKeyHex == EncodeToString(publicKey)
        teal1 == ReplaceTmplOnce(PQlogicsigTMPL, "TMPL_FALCON_PUBLIC_KEY", pubKeyHex)
        teal == ReplaceTmplOnce(teal1, "TMPL_COUNTER", <<0, 1>>)
    IN  CompileResult(CompileLoop(teal, 0, maxIterations))

DerivePQLogicSigWithCompilation(publicKey) ==
    LET pubKeyHex == EncodeToString(publicKey)
        teal1 == ReplaceTmplOnce(PQlogicsigTMPL, "TMPL_FALCON_PUBLIC_KEY", pubKeyHex)
        teal == ReplaceTmplOnce(teal1, "TMPL_COUNTER", <<0, 0>>)
    IN  CompileResult(CompileLoop(teal, 0, maxIterations))

---------------------------------------------------------------------------
(* address.go: derivation from the precompiled program *)

\* Variant: the curve test taken the wrong way round
DeriveCandidate_onCurve(publicKey, counter) ==
    LET lsig == [Logic |-> patchPrecompiledPQlogicsig(publicKey, counter % 256),
                 Args |-> <<>>]
        lsa == LogicSigAddress(lsig.Logic)
    IN  [found |-> isOnTheCurve(lsa), lsig |-> lsig, tried |-> counter + 1]

\* One pass of the loop body of DerivePQLogicSig for one counter value.
DeriveCandidate(publicKey, counter) ==
    LET lsig == [Logic |-> patchPrecompiledPQlogicsig(publicKey, counter % 256),
                 Args |-> <<>>]
        lsa == LogicSigAddress(lsig.Logic)
    IN  [found |-> ~isOnTheCurve(lsa), lsig |-> lsig, tried |-> counter + 1]

\* The loop `for counter := range maxIterations` over the counters lo..hi-1 in
\* increasing order, left with the first candidate found.  The range is split in
\* halves, the upper half being evaluated only when the lower half found
\* nothing, so that the evaluation depth stays logarithmic in the range.
RECURSIVE DeriveLoop(_, _, _)
DeriveLoop(publicKey, lo, hi) ==
    IF hi <= lo THEN [found |-> FALSE, lsig |-> NoLsig, tried |-> lo]
    ELSE IF hi = lo + 1 THEN DeriveCandidate(publicKey, lo)
    ELSE LET mid == (lo + hi) \div 2
             lower == DeriveLoop(publicKey, lo, mid)
         IN  IF lower.found THEN lower ELSE DeriveLoop(publicKey, mid, hi)

DeriveResult(loop) ==
    IF loop.found
    THEN [err |-> "nil", lsig |-> loop.lsig, tried |-> loop.tried, calls |-> 0]
    ELSE [err |-> ErrInvalidFalconPublicKey, lsig |-> NoLsig,
          tried |-> loop.tried, calls |-> 0]

\* Variant: the counter kept across calls, the search resuming where the
\* previous call stopped
DerivePQLogicSig_resume(publicKey) ==
    DeriveResult(DeriveLoop(publicKey,
        IF last.op = "DerivePQLogicSig" /\ last.out.err = "nil"
        THEN last.out.tried - 1 ELSE 0, maxIterations))

\* Variant: the search started at the counter 1
DerivePQLogicSig_fromOne(publicKey) ==
    DeriveResult(DeriveLoop(publicKey, 1, maxIterations))

\* Variant: the loop one pass short
DerivePQLogicSig_shortLoop(publicKey) ==
    DeriveResult(DeriveLoop(publicKey, 0, maxIterations - 1))

\* Variant: the program compiled by the ledger node on every pass
DerivePQLogicSig_compiling(publicKey) == DerivePQLogicSigWithCompilation(publicKey)

DerivePQLogicSig(publicKey) == DeriveResult(DeriveLoop(publicKey, 0, maxIterations))

GetAddressFromPublicKey(publicKey) ==
    LET d == DerivePQLogicSig(publicKey)
    IN  IF d.err # "nil"
        THEN [err |-> d.err, address |-> <<>>, calls |-> d.calls]
        ELSE [err |-> "nil", address |-> LogicSigAddress(d.lsig.Logic), calls |-> d.calls]

---------------------------------------------------------------------------
(* Machine words *)

\* uint64 arithmetic wraps around; the words of the model are WordBits wide
\* (those of the program 64).
WordBits == 16

WordModulus == 2 ^ WordBits

MaxWord == WordModulus - 1

Uint64(n) == n % WordModulus

---------------------------------------------------------------------------
(* go-algorand-sdk: addresses, digests, the ledger node *)

ZeroAddress == [tag |-> "zero", head |-> <<>>, key |-> 0, rest |-> <<>>, tail |-> <<>>]

\* the address of an ordinary account, to pay to
ReceiverAddress ==
    [tag |-> "account", head |-> <<>>, key |-> 0, rest |-> <<>>, tail |-> <<>>]

\* a text given where an address is expected
Text(chars) == [text |-> chars, address |-> ZeroAddress]

\* types.Address.String: the checksummed base32 text of the address
AddressString(address) == [text |-> "base32", address |-> address]

\* types.DecodeAddress
DecodeAddress(text) ==
    IF text.text = "base32" THEN [err |-> "nil", address |-> text.address]
    ELSE [err |-> "malformed address", address |-> ZeroAddress]

ZeroDigest == [tag |-> "zero", of |-> <<>>]

\* crypto.TransactionID: the digest of "TX" followed by the encoded transaction
TransactionID(tx) == [tag |-> "TX", of |-> <<tx>>]

MaxTxGroupSize == 16

\* crypto.ComputeGroupID: the digest of "TG" followed by the transaction
\* identifiers in their order
ComputeGroupID(txgroup) ==
    IF Len(txgroup) > MaxTxGroupSize
    THEN [err |-> "txgroup too large", gid |-> ZeroDigest]
    ELSE IF \E i \in DOMAIN txgroup : txgroup[i].Group # ZeroDigest
    THEN [err |-> "transaction already has a group", gid |-> ZeroDigest]
    ELSE [err |-> "nil",
          gid |-> [tag |-> "TG",
                   of |-> [i \in DOMAIN txgroup |-> TransactionID(txgroup[i])]]]

\* The node behind an endpoint: its network, its fee per byte and its minimum
\* fee.  The node behind ALGOD_URL is one of a private network.
NodeAt(url) ==
    CASE url = "https://mainnet-api.4160.nodely.dev" ->
            [GenesisID |-> "mainnet-v1.0", Fee |-> 0, MinFee |-> 1000]
      [] url = "https://testnet-api.4160.nodely.dev" ->
            [GenesisID |-> "testnet-v1.0", Fee |-> 0, MinFee |-> 1000]
      [] url = "https://betanet-api.4160.nodely.dev" ->
            [GenesisID |-> "betanet-v1.0", Fee |-> 0, MinFee |-> 1000]
      [] OTHER -> [GenesisID |-> "devnet-v1", Fee |-> 5, MinFee |-> 2000]

NoParams ==
    [Fee |-> 0, MinFee |-> 0, GenesisID |-> "", FirstRoundValid |-> 0,
     LastRoundValid |-> 0, FlatFee |-> FALSE]

\* algodClient.SuggestedParams().Do: the node's current parameters, valid for
\* the 1000 rounds from its last round on
SuggestedParams(url) ==
    IF ~algodUp THEN [err |-> "suggested params request failed", sp |-> NoParams]
    ELSE [err |-> "nil",
          sp |-> [Fee |-> NodeAt(url).Fee, MinFee |-> NodeAt(url).MinFee,
                  GenesisID |-> NodeAt(url).GenesisID, FirstRoundValid |-> round,
                  LastRoundValid |-> round + 1000, FlatFee |-> FALSE]]

---------------------------------------------------------------------------
(* go-algorand-sdk: payment transactions *)

MinTxnFee == 1000

\* the encoded size of a signed payment without its note
PaymentSize == 250

NoTransaction ==
    [Type |-> "", Sender |-> ZeroAddress, Fee |-> 0, FirstValid |-> 0, LastValid |-> 0,
     Note |-> <<>>, GenesisID |-> "", Group |-> ZeroDigest, Receiver |-> ZeroAddress,
     Amount |-> 0, CloseRemainderTo |-> ZeroAddress]

\* transaction.EstimateSize
EstimateSize(tx) == PaymentSize + Len(tx.Note)

\* transaction.setFee: the fee per byte times the size, at least MinTxnFee,
\* unless the parameters carry a flat fee
setFee(tx, params) ==
    IF ~params.FlatFee
    THEN LET fee == Uint64(EstimateSize(tx) * params.Fee)
         IN  [tx EXCEPT !.Fee = IF fee < MinTxnFee THEN MinTxnFee ELSE fee]
    ELSE tx

\* transaction.MakePaymentTxn
MakePaymentTxn(from, to, amount, note, closeRemainderTo, params) ==
    LET fromAddr == DecodeAddress(from)
        toAddr == IF to.text # "" THEN DecodeAddress(to)
                  ELSE [err |-> "nil", address |-> ZeroAddress]
        closeAddr == IF closeRemainderTo.text # "" THEN DecodeAddress(closeRemainderTo)
                     ELSE [err |-> "nil", address |-> ZeroAddress]
    IN  IF fromAddr.err # "nil" THEN [err |-> fromAddr.err, tx |-> NoTransaction]
        ELSE IF toAddr.err # "nil" THEN [err |-> toAddr.err, tx |-> NoTransaction]
        ELSE IF closeAddr.err # "nil" THEN [err |-> closeAddr.err, tx |-> NoTransaction]
        ELSE [err |-> "nil",
              tx |-> setFee([Type |-> "pay", Sender |-> fromAddr.address,
                             Fee |-> params.Fee, FirstValid |-> params.FirstRoundValid,
                             LastValid |-> params.LastRoundValid, Note |-> note,
                             GenesisID |-> params.GenesisID, Group |-> ZeroDigest,
                             Receiver |-> toAddr.address, Amount |-> amount,
                             CloseRemainderTo |-> closeAddr.address], params)]

\* crypto.SignLogicSigTransaction: the transaction identifier and the
\* transaction with the logic signature attached
SignLogicSigTransaction(lsig, tx) ==
    LET lsigAddress == LogicSigAddress(lsig.Logic)
    IN  [txid |-> TransactionID(tx),
         stx |-> [Txn |-> tx, Lsig |-> lsig,
                  AuthAddr |-> IF tx.Sender # lsigAddress THEN lsigAddress
                               ELSE ZeroAddress]]

---------------------------------------------------------------------------
(* send.go: the group of the payment and its fillers *)

dummyTxnNeeded == 3

\* teal/dummyLsig.teal.tok
dummyLsigCompiled == <<12, 129, 1>>

\* An external call made by Send: the call, the endpoint of its client and the
\* error it returned
Request(call, url, err) == [call |-> call, url |-> url, err |-> err]

\* the parameters fetched in makeSendGroup, and the external calls it made
NoGroup == [err |-> "nil", txns |-> <<>>, txn |-> NoTransaction, sp |-> NoParams,
            requests |-> <<>>]

\* Variant: the group identifier computed before the fillers are appended
makeSendGroup_gidEarly(txn, network, dummyNeeded) ==
    LET algodClient == GetAlgodClient(network)
        fetched == SuggestedParams(algodClient.url)
        sp == [fetched.sp EXCEPT !.FlatFee = TRUE, !.Fee = 0]
        raised == [txn EXCEPT !.Fee = Uint64(@ + Uint64(dummyNeeded * sp.MinFee))]
        dummyAddress == AddressString(LogicSigAddress(dummyLsigCompiled))
        txns == <<raised>> \o
                [i \in 1..dummyNeeded |->
                    MakePaymentTxn(dummyAddress, dummyAddress, 0, <<(i - 1) % 256>>,
                                   Text(""), sp).tx]
        gid == ComputeGroupID(<<raised>>)
        made == <<Request("GetAlgodClient", algodClient.url, algodClient.err)>>
        asked == Append(made, Request("SuggestedParams", algodClient.url, fetched.err))
    IN  IF algodClient.err # "nil"
        THEN [NoGroup EXCEPT !.err = algodClient.err, !.txn = txn, !.requests = made]
        ELSE IF fetched.err # "nil"
        THEN [NoGroup EXCEPT !.err = fetched.err, !.txn = txn, !.requests = asked]
        ELSE [err |-> "nil", txn |-> raised, sp |-> sp, requests |-> asked,
              txns |-> [i \in DOMAIN txns |-> [txns[i] EXCEPT !.Group = gid.gid]]]

\* Variant: the fillers paid from the address the payment is sent from
makeSendGroup_fromSender(txn, network, dummyNeeded) ==
    LET algodClient == GetAlgodClient(network)
        fetched == SuggestedParams(algodClient.url)
        sp == [fetched.sp EXCEPT !.FlatFee = TRUE, !.Fee = 0]
        raised == [txn EXCEPT !.Fee = Uint64(@ + Uint64(dummyNeeded * sp.MinFee))]
        dummyAddress == AddressString(LogicSigAddress(dummyLsigCompiled))
        txns == <<raised>> \o
                [i \in 1..dummyNeeded |->
                    MakePaymentTxn(AddressString(txn.Sender), dummyAddress, 0,
                                   <<(i - 1) % 256>>, Text(""), sp).tx]
        gid == ComputeGroupID(txns)
        made == <<Request("GetAlgodClient", algodClient.url, algodClient.err)>>
        asked == Append(made, Request("SuggestedParams", algodClient.url, fetched.err))
    IN  IF algodClient.err # "nil"
        THEN [NoGroup EXCEPT !.err = algodClient.err, !.txn = txn, !.requests = made]
        ELSE IF fetched.err # "nil"
        THEN [NoGroup EXCEPT !.err = fetched.err, !.txn = txn, !.requests = asked]
        ELSE [err |-> "nil", txn |-> raised, sp |-> sp, requests |-> asked,
              txns |-> [i \in DOMAIN txns |-> [txns[i] EXCEPT !.Group = gid.gid]]]

\* Variant: every filler with the note of the first one
makeSendGroup_sameNote(txn, network, dummyNeeded) ==
    LET algodClient == GetAlgodClient(network)
        fetched == SuggestedParams(algodClient.url)
        sp == [fetched.sp EXCEPT !.FlatFee = TRUE, !.Fee = 0]
        raised == [txn EXCEPT !.Fee = Uint64(@ + Uint64(dummyNeeded * sp.MinFee))]
        dummyAddress == AddressString(LogicSigAddress(dummyLsigCompiled))
        txns == <<raised>> \o
                [i \in 1..dummyNeeded |->
                    MakePaymentTxn(dummyAddress, dummyAddress, 0, <<0>>, Text(""), sp).tx]
        gid == ComputeGroupID(txns)
        made == <<Request("GetAlgodClient", algodClient.url, algodClient.err)>>
        asked == Append(made, Request("SuggestedParams", algodClient.url, fetched.err))
    IN  IF algodClient.err # "nil"
        THEN [NoGroup EXCEPT !.err = algodClient.err, !.txn = txn, !.requests = made]
        ELSE IF fetched.err # "nil"
        THEN [NoGroup EXCEPT !.err = fetched.err, !.txn = txn, !.requests = asked]
        ELSE [err |-> "nil", txn |-> raised, sp |-> sp, requests |-> asked,
              txns |-> [i \in DOMAIN txns |-> [txns[i] EXCEPT !.Group = gid.gid]]]

\* makeSendGroup: txn is the transaction the pointer refers to when the
\* function returns, txns the group returned.
makeSendGroup(txn, network, dummyNeeded) ==
    LET algodClient == GetAlgodClient(network)
        fetched == SuggestedParams(algodClient.url)
        sp == [fetched.sp EXCEPT !.FlatFee = TRUE, !.Fee = 0]
        raised == [txn EXCEPT !.Fee = Uint64(@ + Uint64(dummyNeeded * sp.MinFee))]
        dummyAddress == AddressString(LogicSigAddress(dummyLsigCompiled))
        dummies == [i \in 1..dummyNeeded |->
                       MakePaymentTxn(dummyAddress, dummyAddress, 0, <<(i - 1) % 256>>,
                                      Text(""), sp)]
        txns == <<raised>> \o [i \in 1..dummyNeeded |-> dummies[i].tx]
        gid == ComputeGroupID(txns)
        made == <<Request("GetAlgodClient", algodClient.url, algodClient.err)>>
        asked == Append(made, Request("SuggestedParams", algodClient.url, fetched.err))
    IN  IF algodClient.err # "nil"
        THEN [NoGroup EXCEPT !.err = algodClient.err, !.txn = txn, !.requests = made]
        ELSE IF fetched.err # "nil"
        THEN [NoGroup EXCEPT !.err = fetched.err, !.txn = txn, !.requests = asked]
        ELSE IF \E i \in 1..dummyNeeded : dummies[i].err # "nil"
        THEN [NoGroup EXCEPT !.err = "malformed address", !.txn = raised, !.sp = sp,
                             !.requests = asked]
        ELSE IF gid.err # "nil"
        THEN [NoGroup EXCEPT !.err = gid.err, !.txn = raised, !.sp = sp,
                             !.requests = asked]
        ELSE [err |-> "nil", txn |-> raised, sp |-> sp, requests |-> asked,
              txns |-> [i \in DOMAIN txns |-> [txns[i] EXCEPT !.Group = gid.gid]]]

\* signDummyTxn
signDummyTxn(txn) ==
    SignLogicSigTransaction([Logic |-> dummyLsigCompiled, Args |-> <<>>], txn).stx

---------------------------------------------------------------------------
(* send.go: Send, in the steps between which the ledger and the environment *)
(* can change                                                               *)

PrivateKeySize == 2305

PrivateKeys == <<[i \in 1..PrivateKeySize |-> 1], [i \in 1..PrivateKeySize |-> (7 * i) % 256]>>

KeyPairOf(k) == [PublicKey |-> Keys[k], PrivateKey |-> PrivateKeys[k]]

\* The number of a private key of PrivateKeys, 0 for any other byte sequence
SecretNumber(bytes) ==
    IF \E k \in DOMAIN PrivateKeys : PrivateKeys[k] = bytes
    THEN CHOOSE k \in DOMAIN PrivateKeys : PrivateKeys[k] = bytes
    ELSE 0

\* The error of a signature that could not be made
ErrSign == "falcon: signing failed"

\* keyPair.SignBytes: the Falcon signature is the term over the signing key,
\* given by its number, and the signed bytes; bytes that are no private key
\* do not sign
SignBytes(signer, data) ==
    [err |-> IF signer = 0 THEN ErrSign ELSE "nil",
     signature |-> [signer |-> signer, data |-> data]]

NoTxID == [tag |-> "", of |-> <<>>]

\* The errors of the node and of the wait for the confirmation
ErrRejected == "HTTP 400: transaction rejected"

ErrWaitTimedOut == "Wait for transaction id timed out"

ErrPoolRejected == "Transaction rejected, error: pool error"

\* The dynamic type of an error value Send returns
ErrorKind(err) ==
    CASE err = "nil" -> "nil"
      [] err \in {"suggested params request failed", "send request failed",
                  "status request failed"} -> "*url.Error"
      [] err = ErrRejected -> "common.BadRequest"
      [] OTHER -> "*errors.errorString"

SendOptions(network, fee, note, useFlatFee) ==
    [Network |-> network, Fee |-> fee, Note |-> note, UseFlatFee |-> useFlatFee]

\* No call of Send in progress
SendIdle ==
    [pc |-> "idle", publicKey |-> <<>>, signer |-> 0, to |-> Text(""), amount |-> 0,
     opt |-> SendOptions("MainNet", 0, <<>>, FALSE),
     lsig |-> NoLsig, lsigAddress |-> Text(""), algodClient |-> "",
     built |-> NoTransaction, sendTxn |-> NoTransaction, sp |-> NoParams,
     sendGroup |-> <<>>, groupParams |-> NoParams, sendBytes |-> <<>>,
     requests |-> <<>>, lastRound |-> 0, currentRound |-> 0,
     txID |-> NoTxID, err |-> "nil", cancelled |-> FALSE]

Return(s, txID, err) == [s EXCEPT !.pc = "returned", !.txID = txID, !.err = err]

\* Variant: the logic signature of the counter 0, whatever its address
SendDerive_counterZero(keyPair, to, amount, opt) ==
    LET s == [SendIdle EXCEPT !.publicKey = keyPair.PublicKey,
                              !.signer = SecretNumber(keyPair.PrivateKey), !.to = to,
                              !.amount = amount, !.opt = opt]
        d == [err |-> "nil",
              lsig |-> [Logic |-> patchPrecompiledPQlogicsig(keyPair.PublicKey, 0),
                        Args |-> <<>>]]
        algodClient == GetAlgodClient(opt.Network)
    IN  IF algodClient.err # "nil"
        THEN Return([s EXCEPT !.lsig = d.lsig,
                              !.requests = <<Request("GetAlgodClient", "", algodClient.err)>>],
                    NoTxID, algodClient.err)
        ELSE [s EXCEPT !.pc = "params", !.lsig = d.lsig,
                       !.requests = <<Request("GetAlgodClient", algodClient.url, "nil")>>,
                       !.lsigAddress = AddressString(LogicSigAddress(d.lsig.Logic)),
                       !.algodClient = algodClient.url]

\* Send, lines 30-43: the logic signature, its address and the client
SendDerive(keyPair, to, amount, opt) ==
    LET s == [SendIdle EXCEPT !.publicKey = keyPair.PublicKey,
                              !.signer = SecretNumber(keyPair.PrivateKey), !.to = to,
                              !.amount = amount, !.opt = opt]
        d == DerivePQLogicSig(keyPair.PublicKey)
        algodClient == GetAlgodClient(opt.Network)
    IN  IF d.err # "nil" THEN Return(s, NoTxID, d.err)
        ELSE IF algodClient.err # "nil"
        THEN Return([s EXCEPT !.lsig = d.lsig,
                              !.requests = <<Request("GetAlgodClient", "", algodClient.err)>>],
                    NoTxID, algodClient.err)
        ELSE [s EXCEPT !.pc = "params", !.lsig = d.lsig,
                       !.requests = <<Request("GetAlgodClient", algodClient.url, "nil")>>,
                       !.lsigAddress = AddressString(LogicSigAddress(d.lsig.Logic)),
                       !.algodClient = algodClient.url]

\* Variant: a failed fetch passed over, the payment built from what came back
SendBuild_unchecked(s) ==
    LET fetched == SuggestedParams(s.algodClient)
        sp == IF s.opt.UseFlatFee
              THEN [fetched.sp EXCEPT !.FlatFee = TRUE, !.Fee = s.opt.Fee]
              ELSE fetched.sp
        made == MakePaymentTxn(s.lsigAddress, s.to, s.amount, s.opt.Note, Text(""), sp)
        asked == [s EXCEPT !.requests =
                     Append(@, Request("SuggestedParams", s.algodClient, fetched.err))]
    IN  IF made.err # "nil" THEN Return([asked EXCEPT !.sp = sp], NoTxID, made.err)
        ELSE [asked EXCEPT !.pc = "group", !.sp = sp, !.built = made.tx,
                           !.sendTxn = made.tx]

\* Send, lines 44-64: the suggested parameters and the payment
SendBuild(s) ==
    LET fetched == SuggestedParams(s.algodClient)
        sp == IF s.opt.UseFlatFee
              THEN [fetched.sp EXCEPT !.FlatFee = TRUE, !.Fee = s.opt.Fee]
              ELSE fetched.sp
        made == MakePaymentTxn(s.lsigAddress, s.to, s.amount, s.opt.Note, Text(""), sp)
        asked == [s EXCEPT !.requests =
                     Append(@, Request("SuggestedParams", s.algodClient, fetched.err))]
    IN  IF fetched.err # "nil" THEN Return(asked, NoTxID, fetched.err)
        ELSE IF made.err # "nil" THEN Return([asked EXCEPT !.sp = sp], NoTxID, made.err)
        ELSE [asked EXCEPT !.pc = "group", !.sp = sp, !.built = made.tx,
                           !.sendTxn = made.tx]

\* Variant: the identifier returned is that of the payment as it was built,
\* before it was put in the group
SendSign_builtID(s) ==
    LET g == makeSendGroup(s.sendTxn, s.opt.Network, dummyTxnNeeded)
        grouped == [s EXCEPT !.sendTxn = g.txn, !.groupParams = g.sp,
                             !.requests = @ \o g.requests, !.sendGroup = g.txns]
        txnToSign == g.txns[1]
        signed == SignBytes(s.signer, TransactionID(txnToSign))
        lsig == [s.lsig EXCEPT !.Args = <<signed.signature>>]
        stx == SignLogicSigTransaction(lsig, txnToSign)
    IN  IF g.err # "nil" THEN Return(grouped, NoTxID, g.err)
        ELSE IF signed.err # "nil" THEN Return(grouped, NoTxID, signed.err)
        ELSE [grouped EXCEPT
                 !.pc = "submit", !.lsig = lsig, !.txID = TransactionID(s.built),
                 !.sendBytes = <<stx.stx>> \o
                               [i \in 1..(Len(g.txns) - 1) |-> signDummyTxn(g.txns[i + 1])]]

\* Variant: the signature made over the identifier of the transaction the
\* pointer given to makeSendGroup refers to, which has no group identifier
SendSign_signsUngrouped(s) ==
    LET g == makeSendGroup(s.sendTxn, s.opt.Network, dummyTxnNeeded)
        grouped == [s EXCEPT !.sendTxn = g.txn, !.groupParams = g.sp,
                             !.requests = @ \o g.requests, !.sendGroup = g.txns]
        txnToSign == g.txns[1]
        signed == SignBytes(s.signer, TransactionID(g.txn))
        lsig == [s.lsig EXCEPT !.Args = <<signed.signature>>]
        stx == SignLogicSigTransaction(lsig, txnToSign)
    IN  IF g.err # "nil" THEN Return(grouped, NoTxID, g.err)
        ELSE IF signed.err # "nil" THEN Return(grouped, NoTxID, signed.err)
        ELSE [grouped EXCEPT
                 !.pc = "submit", !.lsig = lsig, !.txID = stx.txid,
                 !.sendBytes = <<stx.stx>> \o
                               [i \in 1..(Len(g.txns) - 1) |-> signDummyTxn(g.txns[i + 1])]]

\* Variant: the signed fillers appended from the last one to the first
SendSign_fillersReversed(s) ==
    LET g == makeSendGroup(s.sendTxn, s.opt.Network, dummyTxnNeeded)
        grouped == [s EXCEPT !.sendTxn = g.txn, !.groupParams = g.sp,
                             !.requests = @ \o g.requests, !.sendGroup = g.txns]
        txnToSign == g.txns[1]
        signed == SignBytes(s.signer, TransactionID(txnToSign))
        lsig == [s.lsig EXCEPT !.Args = <<signed.signature>>]
        stx == SignLogicSigTransaction(lsig, txnToSign)
    IN  IF g.err # "nil" THEN Return(grouped, NoTxID, g.err)
        ELSE IF signed.err # "nil" THEN Return(grouped, NoTxID, signed.err)
        ELSE [grouped EXCEPT
                 !.pc = "submit", !.lsig = lsig, !.txID = stx.txid,
                 !.sendBytes = <<stx.stx>> \o
                               [i \in 1..(Len(g.txns) - 1) |->
                                   signDummyTxn(g.txns[Len(g.txns) + 1 - i])]]

\* Send, lines 67-92: the group, the signature over the payment's identifier
\* and the bytes to submit
SendSign(s) ==
    LET g == makeSendGroup(s.sendTxn, s.opt.Network, dummyTxnNeeded)
        grouped == [s EXCEPT !.sendTxn = g.txn, !.groupParams = g.sp,
                             !.requests = @ \o g.requests, !.sendGroup = g.txns]
        txnToSign == g.txns[1]
        signed == SignBytes(s.signer, TransactionID(txnToSign))
        lsig == [s.lsig EXCEPT !.Args = <<signed.signature>>]
        stx == SignLogicSigTransaction(lsig, txnToSign)
    IN  IF g.err # "nil" THEN Return(grouped, NoTxID, g.err)
        ELSE IF signed.err # "nil" THEN Return(grouped, NoTxID, signed.err)
        ELSE [grouped EXCEPT
                 !.pc = "submit", !.lsig = lsig, !.txID = stx.txid,
                 !.sendBytes = <<stx.stx>> \o
                               [i \in 1..(Len(g.txns) - 1) |-> signDummyTxn(g.txns[i + 1])]]

\* Variant: the identifier of the signed payment returned with the error
Failed_keepID(s, err) ==
    Return([s EXCEPT !.requests[Len(s.requests)].err = err], s.txID, err)

\* An external call of Send returns an error: the error is noted on the call,
\* the last one made, and returned
Failed(s, err) ==
    Return([s EXCEPT !.requests[Len(s.requests)].err = err], NoTxID, err)

\* Variant: a group the node did not take is handed in once more
SendSubmit_retry(s, accepted) ==
    LET asked == [s EXCEPT !.requests =
                     Append(@, Request("SendRawTransaction", s.algodClient, "nil"))]
        again == [asked EXCEPT !.requests[Len(asked.requests)].err = ErrRejected,
                               !.requests = Append(@, Request("SendRawTransaction",
                                                              s.algodClient, "nil"))]
    IN  IF ~algodUp THEN Failed(asked, "send request failed")
        ELSE IF ~accepted THEN Failed(again, ErrRejected)
        ELSE [asked EXCEPT !.pc = "wait"]

\* Send, lines 94-97: the group handed to the node, which takes it or not
SendSubmit(s, accepted) ==
    LET asked == [s EXCEPT !.requests =
                     Append(@, Request("SendRawTransaction", s.algodClient, "nil"))]
    IN  IF ~algodUp THEN Failed(asked, "send request failed")
        ELSE IF ~accepted THEN Failed(asked, ErrRejected)
        ELSE [asked EXCEPT !.pc = "wait"]

waitRounds == 9

\* Send, line 99, transaction.WaitForConfirmation: the status request that
\* gives the round the wait starts from
SendWaitStatus(s) ==
    LET asked == [s EXCEPT !.requests =
                     Append(@, Request("WaitForConfirmation", s.algodClient, "nil"))]
    IN  IF ~algodUp THEN Failed(asked, "status request failed")
        ELSE [asked EXCEPT !.pc = "poll", !.lastRound = round, !.currentRound = round + 1]

\* Variant: the end of the wait reported with the error of a refused group
SendWaitPoll_refused(s, info) ==
    IF s.currentRound > s.lastRound + waitRounds THEN Failed(s, ErrRejected)
    ELSE IF ~algodUp THEN [s EXCEPT !.pc = "block"]
    ELSE IF info = "rejected" THEN Failed(s, ErrPoolRejected)
    ELSE IF info = "confirmed" THEN Return(s, s.txID, "nil")
    ELSE [s EXCEPT !.pc = "block"]

\* transaction.WaitForConfirmation, one pass of the loop up to the wait for the
\* next block: info is what the node tells about the pending transaction; a
\* failed request is passed over.  Send, lines 100-104, on its return.
SendWaitPoll(s, info) ==
    IF s.currentRound > s.lastRound + waitRounds THEN Failed(s, ErrWaitTimedOut)
    ELSE IF ~algodUp THEN [s EXCEPT !.pc = "block"]
    ELSE IF info = "rejected" THEN Failed(s, ErrPoolRejected)
    ELSE IF info = "confirmed" THEN Return(s, s.txID, "nil")
    ELSE [s EXCEPT !.pc = "block"]

\* Variant: the wait for the block leaves the round to ask for as it was
SendWaitBlock_sameRound(s) ==
    IF ~algodUp THEN Failed(s, "status request failed")
    ELSE [s EXCEPT !.pc = "poll"]

\* transaction.WaitForConfirmation, the rest of the pass: the wait for the
\* block of the current round, which the node ends when the block is there or
\* when it has waited long enough
SendWaitBlock(s) ==
    IF ~algodUp THEN Failed(s, "status request failed")
    ELSE [s EXCEPT !.pc = "poll", !.currentRound = @ + 1]

---------------------------------------------------------------------------
(* cli: the key file *)

\* A text of hexadecimal digits: whether 0x stands in front, and the
\* characters that follow, each a digit 0..15, or 16 for any other character.
HexText(prefix, digits) == [prefix |-> prefix, digits |-> digits]

EmptyHex == HexText("", <<>>)

\* a nil slice, and the slice of the given bytes
NilBytes == [nil |-> TRUE, bytes |-> <<>>]

Bytes(b) == [nil |-> FALSE, bytes |-> b]

\* hex.Decode of an even number of digits
Decode(digits) ==
    <<>> \o [i \in 1..(Len(digits) \div 2) |-> 16 * digits[2 * i - 1] + digits[2 * i]]

parseHex(s) ==
    LET padded == IF Len(s.digits) % 2 = 1 THEN <<0>> \o s.digits ELSE s.digits
    IN  IF s.digits = <<>> THEN [err |-> "nil", bytes |-> Bytes(<<>>)]
        ELSE IF \E i \in DOMAIN padded : padded[i] > 15
        THEN [err |-> "encoding/hex: invalid byte", bytes |-> NilBytes]
        ELSE [err |-> "nil", bytes |-> Bytes(Decode(padded))]

\* The file at the path given with --key: whether it can be read, whether it
\* is JSON, and its public_key and private_key texts.
KeyFile(pub, priv) ==
    [readable |-> TRUE, json |-> TRUE, PublicKey |-> pub, PrivateKey |-> priv]

loadKeypairFile(file) ==
    LET pb == IF file.PublicKey # EmptyHex THEN parseHex(file.PublicKey)
              ELSE [err |-> "nil", bytes |-> NilBytes]
        sk == IF file.PrivateKey # EmptyHex THEN parseHex(file.PrivateKey)
              ELSE [err |-> "nil", bytes |-> NilBytes]
    IN  IF ~file.readable
        THEN [pub |-> NilBytes, priv |-> NilBytes, err |-> "open: no such file"]
        ELSE IF ~file.json
        THEN [pub |-> NilBytes, priv |-> NilBytes, err |-> "invalid JSON"]
        ELSE IF pb.err # "nil"
        THEN [pub |-> NilBytes, priv |-> NilBytes, err |-> "invalid public_key hex"]
        ELSE IF sk.err # "nil"
        THEN [pub |-> pb.bytes, priv |-> NilBytes, err |-> "invalid private_key hex"]
        ELSE [pub |-> pb.bytes, priv |-> sk.bytes, err |-> "nil"]

\* copy(dst[:], src) into a zeroed array of the given size: the bytes of src
\* that fit, the rest of the array left zero
copy(size, src) ==
    <<>> \o [i \in 1..size |-> IF i <= Len(src) THEN src[i] ELSE 0]

---------------------------------------------------------------------------
(* cli: falcon algorand address, falcon algorand send *)

\* No run of the command line: pubLen is the number of public key bytes read
\* from the key file (-1 when none were), derived tells that the derivation
\* was entered, written is the file written with --out.
CliIdle ==
    [cmd |-> "none", running |-> FALSE, exit |-> 0, stdout |-> <<>>, stderr |-> "",
     err |-> "nil", pubLen |-> -1, derived |-> FALSE, written |-> <<>>]

Exit(run, code, stderr, err) ==
    [run EXCEPT !.running = FALSE, !.exit = code, !.stderr = stderr, !.err = err]

PubLen(loaded) ==
    IF loaded.err = "nil" /\ ~loaded.pub.nil THEN Len(loaded.pub.bytes) ELSE -1

\* runAlgorandAddress: writeErr is what writeFileAtomic returns when called
runAlgorandAddress(keyPath, file, out, writeErr) ==
    LET run == [CliIdle EXCEPT !.cmd = "address"]
        loaded == loadKeypairFile(file)
        read == [run EXCEPT !.pubLen = PubLen(loaded)]
        pk == copy(PublicKeySize, loaded.pub.bytes)
        got == GetAddressFromPublicKey(pk)
        derived == [read EXCEPT !.derived = TRUE]
    IN  IF keyPath = "" THEN Exit(run, 2, "--key is required", "nil")
        ELSE IF loaded.err # "nil" THEN Exit(run, 2, "failed to read --key", loaded.err)
        ELSE IF loaded.pub.nil THEN Exit(run, 2, "public key not found", "nil")
        ELSE IF got.err # "nil" THEN Exit(derived, 2, "error deriving address", got.err)
        ELSE IF out = ""
        THEN Exit([derived EXCEPT !.stdout = <<AddressString(got.address)>>], 0, "", "nil")
        ELSE IF writeErr # "nil" THEN Exit(derived, 2, "failed to write", writeErr)
        ELSE Exit([derived EXCEPT !.written = <<out, AddressString(got.address)>>],
                  0, "", "nil")

\* strings.ToLower(strings.TrimSpace(s)) on the texts given with --network
ToLowerTrimSpace(s) ==
    CASE s = "MainNet" -> "mainnet"
      [] s = " TESTNET " -> "testnet"
      [] OTHER -> s

parseAlgorandNetwork(s) ==
    LET name == ToLowerTrimSpace(s)
    IN  CASE name \in {"", "mainnet"} -> [err |-> "nil", network |-> "MainNet"]
          [] name = "testnet" -> [err |-> "nil", network |-> "TestNet"]
          [] name = "betanet" -> [err |-> "nil", network |-> "BetaNet"]
          [] name = "devnet" -> [err |-> "nil", network |-> "DevNet"]
          [] OTHER -> [err |-> "unknown network", network |-> "MainNet"]

\* The flags of falcon algorand send; feeSet tells that --fee was given
SendFlags(keyPath, to, amount, fee, feeSet, note, network) ==
    [key |-> keyPath, to |-> to, amount |-> amount, fee |-> fee, feeSet |-> feeSet,
     note |-> note, network |-> network]

\* Variant: a failed Send reported on the standard error, the exit code left 0
SendExit_zero(run, s) ==
    IF s.pc # "returned" THEN run
    ELSE IF s.err # "nil" THEN Exit(run, 0, "send failed", s.err)
    ELSE Exit([run EXCEPT !.stdout = <<"Transaction confirmed with id", s.txID>>],
              0, "", "nil")

\* runAlgorandSend, lines 148-156: the exit once Send has returned
SendExit(run, s) ==
    IF s.pc # "returned" THEN run
    ELSE IF s.err # "nil" THEN Exit(run, 2, "send failed", s.err)
    ELSE Exit([run EXCEPT !.stdout = <<"Transaction confirmed with id", s.txID>>],
              0, "", "nil")

\* runAlgorandSend up to the return of the first step of Send: the run and the
\* call of Send it has made, if any
runAlgorandSend(flags, file) ==
    LET run == [CliIdle EXCEPT !.cmd = "send"]
        netw == parseAlgorandNetwork(flags.network)
        loaded == loadKeypairFile(file)
        read == [run EXCEPT !.pubLen = PubLen(loaded)]
        kp == [PublicKey |-> copy(PublicKeySize, loaded.pub.bytes),
               PrivateKey |-> copy(PrivateKeySize, loaded.priv.bytes)]
        opt == SendOptions(netw.network, flags.fee, flags.note, flags.feeSet)
        s == SendDerive(kp, flags.to, flags.amount, opt)
        fail(r, stderr, err) == [cli |-> Exit(r, 2, stderr, err), send |-> SendIdle]
    IN  IF flags.key = "" THEN fail(run, "--key is required", "nil")
        ELSE IF flags.to.text = "" THEN fail(run, "--to is required", "nil")
        ELSE IF flags.amount = 0 THEN fail(run, "--amount is required and must be > 0", "nil")
        ELSE IF netw.err # "nil" THEN fail(run, "invalid --network", netw.err)
        ELSE IF loaded.err # "nil" THEN fail(run, "failed to read --key", loaded.err)
        ELSE IF loaded.pub.nil THEN fail(run, "public key not found", "nil")
        ELSE IF loaded.priv.nil THEN fail(read, "private key not found", "nil")
        ELSE [cli |-> SendExit([read EXCEPT !.running = TRUE, !.derived = TRUE], s),
              send |-> s]

---------------------------------------------------------------------------
(* Calls running at the same time, each in its own goroutine *)

Goroutines == 1..2

\* A piece of a byte slice: literal bytes, or the bytes of the key of Keys
\* with the given number
Chunk(bytes, key) == [bytes |-> bytes, key |-> key]

ChunkBytes(chunk) == IF chunk.key = 0 THEN chunk.bytes ELSE Keys[chunk.key]

RECURSIVE SliceBytes(_)
SliceBytes(slice) ==
    IF slice = <<>> THEN <<>> ELSE ChunkBytes(Head(slice)) \o SliceBytes(Tail(slice))

\* Variant: one slice at package level, patched by every call
LocalSlice_shared(i) == 1

\* patchPrecompiledPQlogicsig, lines 92-98: `precompiled` is a slice made by
\* the call for itself
LocalSlice(i) == i

\* A goroutine: the call it makes (op, key, and for Send what the node answers
\* to it), its position, the counter of the loop of DerivePQLogicSig, what the
\* derivation returned, and the call of Send with its locals
GoIdle ==
    [op |-> "none", key |-> 0, resp |-> "none", pc |-> "idle", counter |-> 0,
     lsig |-> NoLsig, err |-> "nil", s |-> SendIdle]

ConcIdle ==
    [g |-> [i \in Goroutines |-> GoIdle],
     precompiled |-> [i \in Goroutines |-> <<>>],
     overlapped |-> FALSE]

\* Another goroutine is inside patchPrecompiledPQlogicsig
Overlaps(c, i) ==
    \E j \in Goroutines \ {i} : c.g[j].pc \in {"appendKey", "appendOp"}

\* patchPrecompiledPQlogicsig, lines 92-99: the slice literal and the counter
PatchLiteral(c, i) ==
    LET head == SubSeq(patchPrecompiledPQlogicsig(ZeroKey, c.g[i].counter % 256), 1, 11)
    IN  [c EXCEPT !.precompiled[LocalSlice(i)] = <<Chunk(head, 0)>>,
                  !.g[i].pc = "appendKey",
                  !.overlapped = @ \/ Overlaps(c, i)]

\* patchPrecompiledPQlogicsig, line 100: the key appended
PatchKey(c, i) ==
    [c EXCEPT !.precompiled[LocalSlice(i)] = Append(@, Chunk(<<>>, c.g[i].key)),
              !.g[i].pc = "appendOp",
              !.overlapped = @ \/ Overlaps(c, i)]

\* patchPrecompiledPQlogicsig, lines 101-102, and the rest of the pass of the
\* loop of DerivePQLogicSig, lines 58-70
PatchReturn(c, i) ==
    LET slice == Append(c.precompiled[LocalSlice(i)], Chunk(<<133>>, 0))
        lsig == [Logic |-> SliceBytes(slice), Args |-> <<>>]
        lsa == LogicSigAddress(lsig.Logic)
        next == c.g[i].counter + 1
        patched == [c EXCEPT !.precompiled[LocalSlice(i)] = slice,
                             !.overlapped = @ \/ Overlaps(c, i)]
        after == IF c.g[i].op = "Send" THEN "client" ELSE "done"
    IN  IF ~isOnTheCurve(lsa)
        THEN [patched EXCEPT !.g[i].pc = after, !.g[i].lsig = lsig]
        ELSE IF next < maxIterations
        THEN [patched EXCEPT !.g[i].pc = "literal", !.g[i].counter = next]
        ELSE [patched EXCEPT !.g[i].pc = after, !.g[i].counter = next,
                             !.g[i].err = ErrInvalidFalconPublicKey]

\* The arguments of the calls of Send made at the same time
ConcSend(key) ==
    [keyPair |-> KeyPairOf(key), to |-> AddressString(ReceiverAddress), amount |-> 1,
     opt |-> SendOptions("MainNet", 0, <<>>, FALSE)]

\* Send, lines 30-43, with the logic signature the goroutine derived
GoSendDerive(go) ==
    LET call == ConcSend(go.key)
        s == SendDerive(call.keyPair, call.to, call.amount, call.opt)
    IN  IF go.err # "nil" THEN Return(SendIdle, NoTxID, go.err)
        ELSE IF s.pc = "returned" THEN s
        ELSE [s EXCEPT !.lsig = go.lsig,
                       !.lsigAddress = AddressString(LogicSigAddress(go.lsig.Logic))]

\* One step of Send after line 43, the node answering as resp tells: it
\* refuses the group, confirms it, or takes it and rejects it from its pool
SendStep(s, resp) ==
    CASE s.pc = "params" -> SendBuild(s)
      [] s.pc = "group" -> SendSign(s)
      [] s.pc = "submit" -> SendSubmit(s, resp # "refused")
      [] s.pc = "wait" -> SendWaitStatus(s)
      [] s.pc = "poll" -> SendWaitPoll(s, IF resp = "rejected" THEN "rejected"
                                         ELSE "confirmed")
      [] s.pc = "block" -> SendWaitBlock(s)
      [] OTHER -> s

\* Send run alone from the given position to its return
RECURSIVE RunSend(_, _)
RunSend(s, resp) == IF s.pc = "returned" THEN s ELSE RunSend(SendStep(s, resp), resp)

SendAlone(key, resp) ==
    LET call == ConcSend(key)
    IN  RunSend(SendDerive(call.keyPair, call.to, call.amount, call.opt), resp)

---------------------------------------------------------------------------
(* utils.go: writeFileAtomic, in the steps of its system calls *)

\* The file written to and the names os.CreateTemp may choose next to it
OutPath == "address.txt"

TempNames == {".address.txt.1.tmp", ".address.txt.2.tmp"}

Writers == 1..2

\* The files: 1 is the file at the path before any call, 1 + w the file that
\* writer w creates; 0 stands for no file
OldFile == 1

TempFile(w) == 1 + w

\* The mode os.CreateTemp creates its file with
TempMode == 384

OldContent == <<111, 108, 100>>

NoWriter == [pc |-> "idle", path |-> "", data |-> <<>>, mode |-> 0, name |-> "", err |-> "nil"]

\* The directory (the file each name refers to), the files (content and mode)
\* and the writers; exists tells whether the path has a file at the start
FsIdle(exists) ==
    [dir |-> [n \in {OutPath} \cup TempNames |->
                 IF n = OutPath /\ exists THEN OldFile ELSE 0],
     file |-> [i \in 1..3 |-> IF i = OldFile /\ exists
                              THEN [content |-> OldContent, mode |-> 420]
                              ELSE [content |-> <<>>, mode |-> 0]],
     w |-> [i \in Writers |-> NoWriter]]

\* A step of writer w fails: the function returns the error once the deferred
\* function has run (lines 141-144)
FsFail(f, w, err) == [f EXCEPT !.w[w].pc = "deferred", !.w[w].err = err]

\* Variant: the data written to the file at the path itself
FsWrite_inPlace(f, w, written) ==
    LET target == IF f.dir[OutPath] # 0 THEN f.dir[OutPath] ELSE TempFile(w)
        wrote == [f EXCEPT !.dir[OutPath] = target,
                           !.file[target].content = SubSeq(f.w[w].data, 1, written)]
    IN  IF written < Len(f.w[w].data) THEN FsFail(wrote, w, "write: no space left on device")
        ELSE [wrote EXCEPT !.w[w].pc = "sync"]

\* Lines 145-147: tf.Write, which may stop after some of the bytes
FsWrite(f, w, written) ==
    LET wrote == [f EXCEPT !.file[TempFile(w)].content = SubSeq(f.w[w].data, 1, written)]
    IN  IF written < Len(f.w[w].data) THEN FsFail(wrote, w, "write: no space left on device")
        ELSE [wrote EXCEPT !.w[w].pc = "sync"]

---------------------------------------------------------------------------
(* State machine: calls of the derivation functions *)

\* The oracle's choices: per public key, the counter bytes whose candidate
\* address is no curve point (every other candidate address is one).
OracleConfigs == {
    <<{}, {0, 1}>>,
    <<{255}, {1, 255}>>,
    <<{0}, {1}>>,
    <<{1}, {0}>>,
    <<{0, 1}, {0, 255}>>,
    <<{1, 255}, {0, 1, 255}>> }

\* Counter bytes the patch function is applied to on its own
CounterSamples == {0, 128, 255}

\* last: the operation, its key and counter arguments, whether the same call
\* had been made before, whether the ledger node answered when the call
\* was made, and what the call returned.
Idle == [op |-> "none", key |-> 0, counter |-> 0, repeat |-> FALSE, up |-> TRUE,
         out |-> <<>>]

Called(op, k, out) ==
    [op |-> op, key |-> k, counter |-> 0, repeat |-> FALSE, up |-> algodUp,
     out |-> out]

\* For a key that is none of Keys the counter bytes 1 and 2 give no curve point.
InitOracle ==
    \E f \in OracleConfigs :
        nonPoints = UNION {{<<k, c>> : c \in f[k]} : k \in KeyIds} \cup {<<0, 1>>, <<0, 2>>}

InitEnv ==
    /\ algodURL = ""
    /\ algodUp = TRUE

InitSendVars ==
    /\ conc = ConcIdle
    /\ fsys = FsIdle(FALSE)
    /\ round = 1
    /\ send = SendIdle
    /\ cli = CliIdle

Init ==
    /\ InitOracle
    /\ InitEnv
    /\ last = Idle
    /\ fastSeen = [k \in KeyIds |-> {}]
    /\ InitSendVars

CallPatch ==
    /\ \E k \in KeyIds, c \in CounterSamples :
        last' = [Called("patchPrecompiledPQlogicsig", k,
                        patchPrecompiledPQlogicsig(Keys[k], c)) EXCEPT
                     !.counter = c, !.up = TRUE]
    /\ UNCHANGED <<nonPoints, fsys, conc, algodURL, algodUp, fastSeen, sendVars>>

CallDerivePQLogicSig ==
    /\ \E k \in KeyIds :
        LET out == DerivePQLogicSig(Keys[k])
        IN  /\ last' = [Called("DerivePQLogicSig", k, out) EXCEPT
                            !.repeat = (fastSeen[k] # {})]
            /\ fastSeen' = [fastSeen EXCEPT ![k] = @ \cup {out}]
    /\ UNCHANGED <<nonPoints, fsys, conc, algodURL, algodUp, sendVars>>

CallGetAddressFromPublicKey ==
    /\ \E k \in KeyIds :
        last' = Called("GetAddressFromPublicKey", k, GetAddressFromPublicKey(Keys[k]))
    /\ UNCHANGED <<nonPoints, fsys, conc, algodURL, algodUp, fastSeen, sendVars>>

CallDerivePQLogicSigWithCompilation ==
    /\ \E k \in KeyIds :
        last' = Called("DerivePQLogicSigWithCompilation", k,
                       DerivePQLogicSigWithCompilation(Keys[k]))
    /\ UNCHANGED <<nonPoints, fsys, conc, algodURL, algodUp, fastSeen, sendVars>>

\* The environment and the ledger change at any time; the changes are taken
\* where a call of Send in progress can still observe them: ALGOD_URL before
\* a client is made, the node's state before a request, the round before a
\* request that reads it.
SetAlgodURL ==
    /\ send.pc \in {"idle", "group"}
    /\ cli.cmd = "none" \/ cli.running
    /\ \E u \in {"", "https://custom"} : algodURL' = u
    /\ algodURL' # algodURL
    /\ UNCHANGED <<nonPoints, fsys, conc, algodUp, last, fastSeen, sendVars>>

AlgodChange ==
    /\ send.pc # "returned"
    /\ cli.cmd = "none" \/ cli.running
    /\ algodUp' = ~algodUp
    /\ UNCHANGED <<nonPoints, fsys, conc, algodURL, last, fastSeen, sendVars>>

Next ==
    \/ CallPatch
    \/ CallDerivePQLogicSig
    \/ CallGetAddressFromPublicKey
    \/ SetAlgodURL
    \/ AlgodChange

Spec == Init /\ [][Next]_vars

NextCompile ==
    \/ CallDerivePQLogicSigWithCompilation
    \/ SetAlgodURL
    \/ AlgodChange

SpecCompile == Init /\ [][NextCompile]_vars

---------------------------------------------------------------------------
(* State machine: Send and the command line *)

MaxRound == 2

\* The calls of Send made
SendCalls == {
    [key |-> 2, to |-> AddressString(ReceiverAddress), amount |-> 1,
     opt |-> SendOptions("MainNet", 0, <<>>, FALSE)],
    [key |-> 1, to |-> AddressString(ReceiverAddress), amount |-> 1,
     opt |-> SendOptions("MainNet", 0, <<>>, FALSE)],
    [key |-> 2, to |-> Text("not an address"), amount |-> 1,
     opt |-> SendOptions("MainNet", 0, <<>>, FALSE)],
    [key |-> 2, to |-> AddressString(ReceiverAddress), amount |-> 0,
     opt |-> SendOptions("DevNet", 0, <<>>, FALSE)],
    [key |-> 2, to |-> AddressString(ReceiverAddress), amount |-> 1,
     opt |-> SendOptions("TestNet", MinTxnFee, <<104, 105>>, TRUE)],
    [key |-> 2, to |-> AddressString(ReceiverAddress), amount |-> 1,
     opt |-> SendOptions("MainNet", 0, <<>>, TRUE)],
    [key |-> 2, to |-> AddressString(ReceiverAddress), amount |-> MaxWord,
     opt |-> SendOptions("BetaNet", MaxWord, <<>>, TRUE)] }

HexOf(bytes) == HexText("", EncodeToString(bytes))

\* The key files the command line is run on
KeyFiles == {
    KeyFile(HexText("0x", EncodeToString(Keys[2])), HexOf(PrivateKeys[2])),
    KeyFile(HexOf(Keys[1]), EmptyHex),
    KeyFile(HexOf(Keys[2] \o <<9>>), HexOf(PrivateKeys[2])),
    KeyFile(HexText("0x", <<>>), HexOf(PrivateKeys[1])),
    KeyFile(HexText("", <<7>>), HexText("", <<1, 2>>)),
    KeyFile(HexText("", <<16, 1>>), EmptyHex),
    KeyFile(EmptyHex, HexOf(PrivateKeys[2])),
    KeyFile(HexOf(Keys[2]), HexText("0x", <<1, 16>>)),
    [KeyFile(EmptyHex, EmptyHex) EXCEPT !.readable = FALSE],
    [KeyFile(EmptyHex, EmptyHex) EXCEPT !.json = FALSE] }

\* The flags falcon algorand send is run with
SendRuns == {
    SendFlags("key.json", AddressString(ReceiverAddress), 1, 0, FALSE, <<>>, "mainnet"),
    SendFlags("key.json", AddressString(ReceiverAddress), 1, MaxWord, TRUE, <<104>>, "MainNet"),
    SendFlags("", AddressString(ReceiverAddress), 1, 0, FALSE, <<>>, "mainnet"),
    SendFlags("key.json", Text(""), 1, 0, FALSE, <<>>, "mainnet"),
    SendFlags("key.json", Text("not an address"), 1, 0, TRUE, <<>>, "devnet"),
    SendFlags("key.json", AddressString(ReceiverAddress), 0, 0, FALSE, <<>>, " TESTNET "),
    SendFlags("key.json", AddressString(ReceiverAddress), 1, 0, FALSE, <<>>, "foonet") }

\* Under Send the first key has no address off the curve and the second has
\* its first one at the counter 1.
InitSend ==
    /\ nonPoints = {<<2, 1>>, <<2, 2>>, <<0, 1>>, <<0, 2>>}
    /\ InitEnv
    /\ last = Idle
    /\ fastSeen = [k \in KeyIds |-> {}]
    /\ InitSendVars

\* A process makes one call of Send, or is one run of the command line.
NoCall == send.pc = "idle" /\ cli.cmd = "none"

CallSend ==
    /\ NoCall
    /\ \E c \in SendCalls : send' = SendDerive(KeyPairOf(c.key), c.to, c.amount, c.opt)
    /\ cli' = CliIdle
    /\ UNCHANGED <<nonPoints, fsys, conc, algodURL, algodUp, last, fastSeen, round>>

RunAlgorandAddress ==
    /\ NoCall
    /\ \E keyPath \in {"", "key.json"}, file \in KeyFiles, out \in {"", "address.txt"},
          writeErr \in {"nil", "rename: permission denied"} :
          cli' = runAlgorandAddress(keyPath, file, out, writeErr)
    /\ send' = SendIdle
    /\ UNCHANGED <<nonPoints, fsys, conc, algodURL, algodUp, last, fastSeen, round>>

RunAlgorandSend ==
    /\ NoCall
    /\ \E flags \in SendRuns, file \in KeyFiles :
          LET r == runAlgorandSend(flags, file)
          IN  cli' = r.cli /\ send' = r.send
    /\ UNCHANGED <<nonPoints, fsys, conc, algodURL, algodUp, last, fastSeen, round>>

StepBuild ==
    /\ send.pc = "params"
    /\ send' = SendBuild(send)
    /\ cli' = SendExit(cli, send')
    /\ UNCHANGED <<nonPoints, fsys, conc, algodURL, algodUp, last, fastSeen, round>>

StepSign ==
    /\ send.pc = "group"
    /\ send' = SendSign(send)
    /\ cli' = SendExit(cli, send')
    /\ UNCHANGED <<nonPoints, fsys, conc, algodURL, algodUp, last, fastSeen, round>>

StepSubmit ==
    /\ send.pc = "submit"
    /\ \E accepted \in BOOLEAN : send' = SendSubmit(send, accepted)
    /\ cli' = SendExit(cli, send')
    /\ UNCHANGED <<nonPoints, fsys, conc, algodURL, algodUp, last, fastSeen, round>>

StepWaitStatus ==
    /\ send.pc = "wait"
    /\ send' = SendWaitStatus(send)
    /\ cli' = SendExit(cli, send')
    /\ UNCHANGED <<nonPoints, fsys, conc, algodURL, algodUp, last, fastSeen, round>>

StepWaitPoll ==
    /\ send.pc = "poll"
    /\ \E info \in {"pending", "confirmed", "rejected"} : send' = SendWaitPoll(send, info)
    /\ cli' = SendExit(cli, send')
    /\ UNCHANGED <<nonPoints, fsys, conc, algodURL, algodUp, last, fastSeen, round>>

StepWaitBlock ==
    /\ send.pc = "block"
    /\ send' = SendWaitBlock(send)
    /\ cli' = SendExit(cli, send')
    /\ UNCHANGED <<nonPoints, fsys, conc, algodURL, algodUp, last, fastSeen, round>>

RoundAdvance ==
    /\ send.pc \in {"params", "group", "wait"}
    /\ round < MaxRound
    /\ round' = round + 1
    /\ UNCHANGED <<nonPoints, fsys, conc, algodURL, algodUp, last, fastSeen, send, cli>>

\* The caller gives up while Send is at work: Send takes no context or
\* deadline, and each of its requests is made with context.Background(), which
\* is never done, so that the steps of Send go on as before
Cancel ==
    /\ cli.cmd = "none"
    /\ send.pc \notin {"idle", "returned"}
    /\ ~send.cancelled
    /\ send' = [send EXCEPT !.cancelled = TRUE]
    /\ UNCHANGED <<nonPoints, fsys, conc, algodURL, algodUp, last, fastSeen, round, cli>>

NextSend ==
    \/ CallSend
    \/ RunAlgorandAddress
    \/ RunAlgorandSend
    \/ StepBuild
    \/ StepSign
    \/ StepSubmit
    \/ StepWaitStatus
    \/ StepWaitPoll
    \/ StepWaitBlock
    \/ RoundAdvance
    \/ SetAlgodURL
    \/ AlgodChange
    \/ Cancel

SpecSend == InitSend /\ [][NextSend]_vars

\* Send under the assumption that every request of the wait for the
\* confirmation returns: the node answers or the connection fails
SpecSendLive ==
    /\ InitSend
    /\ [][NextSend]_vars
    /\ WF_vars(StepWaitStatus)
    /\ WF_vars(StepWaitPoll)
    /\ WF_vars(StepWaitBlock)

---------------------------------------------------------------------------
(* State machine: calls of DerivePQLogicSig and Send running at the same time *)

\* The calls a goroutine may make
ConcCalls ==
    {[op |-> "DerivePQLogicSig", key |-> k, resp |-> "none"] : k \in KeyIds}
    \cup {[op |-> "Send", key |-> k, resp |-> r] :
             k \in KeyIds, r \in {"refused", "confirmed", "rejected"}}

\* The first key gives no curve point at once, the second in the second pass
InitConc ==
    /\ nonPoints = {<<1, 0>>, <<2, 1>>, <<2, 2>>, <<0, 1>>}
    /\ \E u \in {"", "https://custom"} : algodURL = u
    /\ algodUp = TRUE
    /\ last = Idle
    /\ fastSeen = [k \in KeyIds |-> {}]
    /\ InitSendVars

Go ==
    /\ \E i \in Goroutines, call \in ConcCalls :
          /\ conc.g[i].pc = "idle"
          /\ conc' = [conc EXCEPT !.g[i] = [GoIdle EXCEPT !.op = call.op,
                                                         !.key = call.key,
                                                         !.resp = call.resp,
                                                         !.pc = "literal"]]
    /\ UNCHANGED <<nonPoints, fsys, algodURL, algodUp, last, fastSeen, round, send, cli>>

StepPatchLiteral ==
    /\ \E i \in Goroutines :
          /\ conc.g[i].pc = "literal"
          /\ conc' = PatchLiteral(conc, i)
    /\ UNCHANGED <<nonPoints, fsys, algodURL, algodUp, last, fastSeen, round, send, cli>>

StepPatchKey ==
    /\ \E i \in Goroutines :
          /\ conc.g[i].pc = "appendKey"
          /\ conc' = PatchKey(conc, i)
    /\ UNCHANGED <<nonPoints, fsys, algodURL, algodUp, last, fastSeen, round, send, cli>>

StepPatchReturn ==
    /\ \E i \in Goroutines :
          /\ conc.g[i].pc = "appendOp"
          /\ conc' = PatchReturn(conc, i)
    /\ UNCHANGED <<nonPoints, fsys, algodURL, algodUp, last, fastSeen, round, send, cli>>

StepSendDerive ==
    /\ \E i \in Goroutines :
          /\ conc.g[i].pc = "client"
          /\ conc' = [conc EXCEPT !.g[i].s = GoSendDerive(conc.g[i]),
                                  !.g[i].pc = "send"]
    /\ UNCHANGED <<nonPoints, fsys, algodURL, algodUp, last, fastSeen, round, send, cli>>

StepSend ==
    /\ \E i \in Goroutines :
          /\ conc.g[i].pc = "send"
          /\ conc' = IF conc.g[i].s.pc = "returned"
                     THEN [conc EXCEPT !.g[i].pc = "done"]
                     ELSE [conc EXCEPT !.g[i].s = SendStep(@, conc.g[i].resp)]
    /\ UNCHANGED <<nonPoints, fsys, algodURL, algodUp, last, fastSeen, round, send, cli>>

NextConc ==
    \/ Go
    \/ StepPatchLiteral
    \/ StepPatchKey
    \/ StepPatchReturn
    \/ StepSendDerive
    \/ StepSend

SpecConc == InitConc /\ [][NextConc]_vars

---------------------------------------------------------------------------
(* State machine: two calls of writeFileAtomic for the same path *)

InitWrite ==
    /\ nonPoints = {<<1, 0>>, <<2, 1>>, <<0, 1>>}
    /\ InitEnv
    /\ last = Idle
    /\ fastSeen = [k \in KeyIds |-> {}]
    /\ conc = ConcIdle
    /\ round = 1
    /\ send = SendIdle
    /\ cli = CliIdle
    /\ \E exists \in BOOLEAN : fsys = FsIdle(exists)

\* Lines 130-139: the check of the path and os.CreateTemp, which chooses a
\* name no file has; the calls pass 0o600 and 0o644 as the commands do, and
\* the mode 0
WriteFileAtomic ==
    /\ \E w \in Writers, name \in TempNames, ok \in BOOLEAN :
       \E call \in {[path |-> OutPath, data |-> <<65, 66>>, mode |-> 384],
                    [path |-> OutPath, data |-> <<67, 68, 69>>, mode |-> 420],
                    [path |-> OutPath, data |-> <<70>>, mode |-> 0],
                    [path |-> "", data |-> <<65, 66>>, mode |-> 384]} :
          LET called == [fsys EXCEPT !.w[w] = [NoWriter EXCEPT !.path = call.path,
                                                               !.data = call.data,
                                                               !.mode = call.mode]]
          IN  /\ fsys.w[w].pc = "idle"
              /\ fsys.dir[name] = 0
              /\ fsys' = IF call.path = ""
                         THEN [called EXCEPT !.w[w].pc = "returned",
                                             !.w[w].err = "empty path"]
                         ELSE IF ~ok
                         THEN [called EXCEPT !.w[w].pc = "returned",
                                             !.w[w].err = "create: permission denied"]
                         ELSE [called EXCEPT !.w[w].pc = "write", !.w[w].name = name,
                                             !.dir[name] = TempFile(w),
                                             !.file[TempFile(w)] =
                                                 [content |-> <<>>, mode |-> TempMode]]
    /\ UNCHANGED <<nonPoints, conc, algodURL, algodUp, last, fastSeen, round, send, cli>>

StepWrite ==
    /\ \E w \in Writers :
          /\ fsys.w[w].pc = "write"
          /\ \E written \in 0..Len(fsys.w[w].data) : fsys' = FsWrite(fsys, w, written)
    /\ UNCHANGED <<nonPoints, conc, algodURL, algodUp, last, fastSeen, round, send, cli>>

\* Lines 148-150: tf.Sync
StepSync ==
    /\ \E w \in Writers, ok \in BOOLEAN :
          /\ fsys.w[w].pc = "sync"
          /\ fsys' = IF ~ok THEN FsFail(fsys, w, "sync: input/output error")
                     ELSE [fsys EXCEPT !.w[w].pc = "chmod"]
    /\ UNCHANGED <<nonPoints, conc, algodURL, algodUp, last, fastSeen, round, send, cli>>

\* Lines 151-155: tf.Chmod, for a mode other than 0
StepChmod ==
    /\ \E w \in Writers, ok \in BOOLEAN :
          /\ fsys.w[w].pc = "chmod"
          /\ fsys' = IF fsys.w[w].mode = 0 THEN [fsys EXCEPT !.w[w].pc = "close"]
                     ELSE IF ~ok THEN FsFail(fsys, w, "chmod: operation not permitted")
                     ELSE [fsys EXCEPT !.w[w].pc = "close",
                                       !.file[TempFile(w)].mode = fsys.w[w].mode]
    /\ UNCHANGED <<nonPoints, conc, algodURL, algodUp, last, fastSeen, round, send, cli>>

\* Lines 156-158: tf.Close
StepClose ==
    /\ \E w \in Writers, ok \in BOOLEAN :
          /\ fsys.w[w].pc = "close"
          /\ fsys' = IF ~ok THEN FsFail(fsys, w, "close: input/output error")
                     ELSE [fsys EXCEPT !.w[w].pc = "rename"]
    /\ UNCHANGED <<nonPoints, conc, algodURL, algodUp, last, fastSeen, round, send, cli>>

\* Lines 159-162: os.Rename, in one step of the file system; it fails when
\* the name has no file any more
StepRename ==
    /\ \E w \in Writers, ok \in BOOLEAN :
          LET name == fsys.w[w].name
          IN  /\ fsys.w[w].pc = "rename"
              /\ fsys' = IF fsys.dir[name] = 0
                         THEN FsFail(fsys, w, "rename: no such file or directory")
                         ELSE IF ~ok THEN FsFail(fsys, w, "rename: permission denied")
                         ELSE [fsys EXCEPT !.dir[OutPath] = fsys.dir[name],
                                           !.dir[name] = 0,
                                           !.w[w].pc = "dirsync"]
    /\ UNCHANGED <<nonPoints, conc, algodURL, algodUp, last, fastSeen, round, send, cli>>

\* Lines 163-167: the directory opened and synced, errors passed over
StepDirSync ==
    /\ \E w \in Writers :
          /\ fsys.w[w].pc = "dirsync"
          /\ fsys' = [fsys EXCEPT !.w[w].pc = "deferred"]
    /\ UNCHANGED <<nonPoints, conc, algodURL, algodUp, last, fastSeen, round, send, cli>>

\* Lines 141-144 and the return: tf.Close and os.Remove(name), which removes
\* whatever file has the name
StepDeferred ==
    /\ \E w \in Writers :
          /\ fsys.w[w].pc = "deferred"
          /\ fsys' = [fsys EXCEPT !.dir[fsys.w[w].name] = 0, !.w[w].pc = "returned"]
    /\ UNCHANGED <<nonPoints, conc, algodURL, algodUp, last, fastSeen, round, send, cli>>

NextWrite ==
    \/ WriteFileAtomic
    \/ StepWrite
    \/ StepSync
    \/ StepChmod
    \/ StepClose
    \/ StepRename
    \/ StepDirSync
    \/ StepDeferred

SpecWrite == InitWrite /\ [][NextWrite]_vars

---------------------------------------------------------------------------
(* Properties of the derivation *)

FastPathOps == {"DerivePQLogicSig", "GetAddressFromPublicKey"}

\* C1: whenever DerivePQLogicSig (or GetAddressFromPublicKey on top of it)
\* returns without error, the address of the returned logic signature does
\* not decode to a curve point.
C1_AddressOffCurve ==
    /\ (last.op = "DerivePQLogicSig" /\ last.out.err = "nil")
          => ~isOnTheCurve(LogicSigAddress(last.out.lsig.Logic))
    /\ (last.op = "GetAddressFromPublicKey" /\ last.out.err = "nil")
          => ~isOnTheCurve(last.out.address)

\* a derivation that passed over a candidate on the curve before it returned
C1_Witness ==
    /\ last.op = "DerivePQLogicSig"
    /\ last.out.err = "nil"
    /\ last.out.tried >= 2

C3_ExhaustedExactly ==
    last.op = "DerivePQLogicSig" =>
        /\ last.out.err \in {"nil", ErrInvalidFalconPublicKey}
        /\ (last.out.err = ErrInvalidFalconPublicKey) <=>
             (\A c \in 0..255 : isOnTheCurve(LogicSigAddress(
                  patchPrecompiledPQlogicsig(Keys[last.key], c))))
        /\ last.out.tried <= 256

\* a derivation that failed after all 256 candidates
C3_Witness ==
    /\ last.op = "DerivePQLogicSig"
    /\ last.out.err = ErrInvalidFalconPublicKey
    /\ last.out.tried = 256

\* C4: when the ledger node answers, DerivePQLogicSigWithCompilation
\* returns what DerivePQLogicSig returns for the same key: the same error, the
\* same program bytes and arguments, the same address, after the same number
\* of candidates.
C4_PathsAgree ==
    (last.op = "DerivePQLogicSigWithCompilation"
        /\ last.out.err \in {"nil", ErrInvalidFalconPublicKey}) =>
        LET fast == DerivePQLogicSig(Keys[last.key])
        IN  /\ fast.err = last.out.err
            /\ fast.lsig = last.out.lsig
            /\ LogicSigAddress(fast.lsig.Logic) = LogicSigAddress(last.out.lsig.Logic)
            /\ fast.tried = last.out.tried

\* a derivation by compilation that succeeded with the last counter, 255
C4_Witness ==
    /\ last.op = "DerivePQLogicSigWithCompilation"
    /\ last.out.err = "nil"
    /\ last.out.tried = 256
    /\ last.out.calls = 256

\* C6: the patched program is 1805 bytes: the fixed bytes 0c 26 01 01 at
\* offsets 0..3, the counter at offset 4, the fixed bytes 31 17 2d 80 81 0e at
\* offsets 5..10, the public key unmodified at offsets 11..1803 and 0x85 at
\* offset 1804; another key or counter gives another program.
C6_ProgramLayout ==
    last.op = "patchPrecompiledPQlogicsig" =>
        /\ Len(last.out) = 1805
        /\ SubSeq(last.out, 1, 4) = <<12, 38, 1, 1>>
        /\ last.out[5] = last.counter
        /\ SubSeq(last.out, 6, 11) = <<49, 23, 45, 128, 129, 14>>
        /\ SubSeq(last.out, 12, 1804) = Keys[last.key]
        /\ last.out[1805] = 133
        /\ \A k \in KeyIds, c \in CounterSamples :
              (k # last.key \/ c # last.counter)
                 => patchPrecompiledPQlogicsig(Keys[k], c) # last.out

\* the program patched for the second key and the counter 255
C6_Witness ==
    /\ last.op = "patchPrecompiledPQlogicsig"
    /\ last.key = 2
    /\ last.counter = 255

---------------------------------------------------------------------------
(* Properties of the command line and of the group *)

\* C5: a run of falcon algorand address or falcon algorand send whose key
\* file holds a public key of another length than 1793 bytes ends with exit
\* code 2 and the error InvalidKeySize, before the derivation is entered and
\* without an address or a transaction identifier printed or written.
C5_WrongSizeRejected ==
    (cli.cmd \in {"address", "send"} /\ cli.pubLen \notin {-1, PublicKeySize}) =>
        /\ ~cli.running
        /\ cli.exit = 2
        /\ cli.err = "InvalidKeySize"
        /\ ~cli.derived
        /\ cli.stdout = <<>>
        /\ cli.written = <<>>

\* C8: the group makeSendGroup returned holds 1 + K transactions, the first
\* of them the payment as it was built (but for its fee and group), and every
\* one carries the same group identifier, which is not zero and is the one
\* computed over the whole sequence in its order.
C8_GroupShape ==
    send.sendGroup # <<>> =>
        LET g == send.sendGroup
            ungrouped == [i \in DOMAIN g |-> [g[i] EXCEPT !.Group = ZeroDigest]]
        IN  /\ Len(g) = 1 + dummyTxnNeeded
            /\ [g[1] EXCEPT !.Fee = 0, !.Group = ZeroDigest] = [send.built EXCEPT !.Fee = 0]
            /\ \A i \in DOMAIN g : g[i].Group = g[1].Group
            /\ g[1].Group # ZeroDigest
            /\ ComputeGroupID(ungrouped) = [err |-> "nil", gid |-> g[1].Group]

\* a confirmed payment whose group was built with the parameters of another
\* network than the payment itself
C8_Witness ==
    /\ send.pc = "returned"
    /\ send.err = "nil"
    /\ Len(send.sendGroup) = 4
    /\ send.sp.GenesisID # send.groupParams.GenesisID

\* C9: every transaction after the first of the group makeSendGroup returned
\* is a payment of amount 0 from the address of the dummy logic signature to
\* that same address, whatever the keys of the caller.
C9_Fillers ==
    send.sendGroup # <<>> =>
        \A i \in 2..Len(send.sendGroup) :
            LET filler == send.sendGroup[i]
            IN  /\ filler.Type = "pay"
                /\ filler.Amount = 0
                /\ filler.Sender = LogicSigAddress(dummyLsigCompiled)
                /\ filler.Receiver = filler.Sender
                /\ filler.CloseRemainderTo = ZeroAddress

\* a group built for a key pair read from a key file, the public key being
\* none of Keys
C9_Witness ==
    /\ cli.cmd = "send"
    /\ Len(send.sendGroup) = 4
    /\ send.sendGroup[1].Sender.key = 0
    /\ send.sendGroup[1].Sender # send.sendGroup[2].Sender

\* C10: in the group Send built, the fee of the first transaction is the fee
\* the payment was built with plus 3 times the minimum fee, and the fee of
\* every filler is the zero it was built with.
C10_FeeRaisedExactly ==
    send.sendGroup # <<>> =>
        /\ dummyTxnNeeded = 3
        /\ send.sendGroup[1].Fee =
              send.built.Fee + dummyTxnNeeded * send.groupParams.MinFee
        /\ \A i \in 2..Len(send.sendGroup) : send.sendGroup[i].Fee = 0

-----------------------------------------------------------------------------
\* Properties of Send: its results and its errors

\* The places in the list of external calls Send made where the given call is
Asked(call) == {i \in DOMAIN send.requests : send.requests[i].call = call}

\* The external calls Send makes when none fails, in their order
CallsOfSend ==
    <<"GetAlgodClient", "SuggestedParams", "GetAlgodClient", "SuggestedParams",
      "SendRawTransaction", "WaitForConfirmation">>

\* The wait for the confirmation used up its rounds
TimedOut ==
    /\ Asked("WaitForConfirmation") # {}
    /\ send.currentRound > send.lastRound + waitRounds

\* C11: when the node returned the parameters both times, took the group and
\* confirmed it within the rounds of the wait, Send returns a nil error and the
\* identifier of the first transaction of the group as it was signed and
\* submitted; and a nil error is returned in that case only.
C11_SuccessReturnsPaymentID ==
    send.pc = "returned" =>
        /\ (send.err = "nil") <=>
              /\ [i \in DOMAIN send.requests |-> send.requests[i].call] = CallsOfSend
              /\ \A i \in DOMAIN send.requests : send.requests[i].err = "nil"
        /\ send.err = "nil" =>
              /\ send.txID = TransactionID(send.sendGroup[1])
              /\ send.sendBytes[1].Txn = send.sendGroup[1]
              /\ send.sendBytes[1].Lsig = send.lsig
              /\ send.currentRound <= send.lastRound + waitRounds

\* a payment confirmed in the last pass the wait allows
C11_Witness ==
    /\ send.pc = "returned"
    /\ send.err = "nil"
    /\ send.currentRound = send.lastRound + waitRounds
    /\ send.txID = TransactionID(send.sendGroup[1])

C15_IdentifierOnlyOnSuccess ==
    send.pc = "returned" =>
        /\ (send.txID # NoTxID) <=> (send.err = "nil")
        /\ send.txID # NoTxID =>
              /\ Asked("SendRawTransaction") = {5}
              /\ Asked("WaitForConfirmation") = {6}
              /\ send.requests[5].err = "nil"
              /\ send.requests[6].err = "nil"

\* the node refused the payment in its pool after it had taken the group: the
\* identifier Send held since the signing is not returned
C15_Witness ==
    /\ send.pc = "returned"
    /\ send.err = ErrPoolRejected
    /\ send.txID = NoTxID
    /\ send.sendBytes # <<>>

\* C18: Send calls SendRawTransaction at most once, and after an external
\* call failed it makes no other: the failed call is the last one and its error
\* is what Send returns.
C18_NoRetry ==
    /\ Cardinality(Asked("SendRawTransaction")) <= 1
    /\ \A i \in DOMAIN send.requests :
          send.requests[i].err # "nil" =>
              /\ i = Len(send.requests)
              /\ send.pc = "returned"
              /\ send.err = send.requests[i].err

\* the node refused the group and Send returned
C18_Witness ==
    /\ send.pc = "returned"
    /\ send.err = ErrRejected
    /\ Asked("SendRawTransaction") = {5}
    /\ Len(send.requests) = 5

\* The steps of Send an error can come from
Steps == {"build", "sign", "submit", "confirm"}

\* The step in which the call of Send that returned an error failed
FailedStep ==
    IF send.err = ErrSign THEN "sign"
    ELSE IF Asked("WaitForConfirmation") # {} THEN "confirm"
    ELSE IF Asked("SendRawTransaction") # {} THEN "submit"
    ELSE "build"

\* The step the type of an error names: the errors Send returns are those of
\* the calls it made, of types that name no step
StepNamed(err) == IF ErrorKind(err) \in Steps THEN ErrorKind(err) ELSE "none"

\* C14: every error Send returns is of a type that names the step that
\* produced it, one of build, sign, submit and confirm.
C14_ErrorNamesStep ==
    (send.pc = "returned" /\ send.err # "nil") =>
        /\ StepNamed(send.err) \in Steps
        /\ StepNamed(send.err) = FailedStep

\* The error of a request whose context was cancelled
ErrCanceled == "context canceled"

\* C16: when the caller's cancellation or deadline fires while a call of Send
\* is at work, Send makes no further external call and returns a cancellation
\* error.
C16_CancelAborts ==
    (send.pc = "returned" /\ send.cancelled) => send.err = ErrCanceled

-----------------------------------------------------------------------------
\* Properties of the commands

-----------------------------------------------------------------------------
\* Properties of calls running at the same time

\* C19: whatever the interleaving of calls of DerivePQLogicSig and Send made
\* at the same time, with the same or with different keys, each call returns
\* what it returns when it runs alone with the same answers of the node: the
\* same program and address, and for Send the same endpoint, group, signed
\* bytes, identifier and error.
C19_Independent ==
    \A i \in Goroutines :
        LET go == conc.g[i]
        IN  go.pc = "done" =>
                /\ go.op = "DerivePQLogicSig" =>
                      LET alone == DerivePQLogicSig(Keys[go.key])
                      IN  /\ go.err = alone.err
                          /\ go.lsig = alone.lsig
                /\ go.op = "Send" =>
                      LET alone == SendAlone(go.key, go.resp)
                      IN  /\ go.s.lsig = alone.lsig
                          /\ go.s.lsigAddress = alone.lsigAddress
                          /\ go.s.algodClient = alone.algodClient
                          /\ go.s.sendGroup = alone.sendGroup
                          /\ go.s.sendBytes = alone.sendBytes
                          /\ go.s = alone

\* a payment confirmed and a derivation for the same key, both returned,
\* after one of them patched its program while the other was patching its own
C19_Witness ==
    /\ conc.overlapped
    /\ conc.g[1].pc = "done"
    /\ conc.g[2].pc = "done"
    /\ conc.g[1].op = "Send"
    /\ conc.g[2].op = "DerivePQLogicSig"
    /\ conc.g[1].key = conc.g[2].key
    /\ conc.g[1].s.err = "nil"
    /\ conc.g[1].s.txID # NoTxID
    /\ conc.g[2].lsig.Logic = conc.g[1].s.lsig.Logic

-----------------------------------------------------------------------------
\* Properties of the choice of the endpoint

-----------------------------------------------------------------------------
\* More properties of the derivation

\* C22: when DerivePQLogicSig returns a logic signature, its program is the
\* one patched with a counter c whose address is no curve point, the address
\* of the program of every smaller counter is a curve point, and c + 1
\* counters were tried, none after c.
C22_MinimalCounter ==
    (last.op = "DerivePQLogicSig" /\ last.out.err = "nil") =>
        LET publicKey == Keys[last.key]
            c == last.out.lsig.Logic[5]
        IN  /\ last.out.lsig.Logic = patchPrecompiledPQlogicsig(publicKey, c)
            /\ ~isOnTheCurve(LogicSigAddress(last.out.lsig.Logic))
            /\ \A smaller \in 0..(c - 1) :
                  isOnTheCurve(LogicSigAddress(
                      patchPrecompiledPQlogicsig(publicKey, smaller)))
            /\ last.out.tried = c + 1

\* a derivation that returned the program of the last counter, 255, after it
\* had tried all 256
C22_Witness ==
    /\ last.op = "DerivePQLogicSig"
    /\ last.out.err = "nil"
    /\ last.out.lsig.Logic[5] = 255
    /\ last.out.tried = maxIterations

-----------------------------------------------------------------------------
\* Properties of what Send signs and submits

\* C23: the logic signature of the first signed transaction has one
\* argument, the Falcon signature by the caller's private key over the
\* identifier of that transaction as it is submitted: the first transaction
\* of the group, with the raised fee and the group identifier; and what is
\* signed does not change afterwards.
C23_SignsWhatIsSubmitted ==
    /\ [](send.sendBytes # <<>> =>
            LET stx == send.sendBytes[1]
                g == send.sendGroup
                ungrouped == [i \in DOMAIN g |-> [g[i] EXCEPT !.Group = ZeroDigest]]
            IN  /\ Len(stx.Lsig.Args) = 1
                /\ stx.Lsig.Args[1] = SignBytes(send.signer, TransactionID(stx.Txn)).signature
                /\ stx.Lsig.Logic = DerivePQLogicSig(send.publicKey).lsig.Logic
                /\ stx.Txn = g[1]
                /\ stx.Txn.Group # ZeroDigest
                /\ stx.Txn.Group = ComputeGroupID(ungrouped).gid
                /\ stx.Txn.Fee = Uint64(send.built.Fee
                                        + Uint64(dummyTxnNeeded * send.groupParams.MinFee))
                /\ send.pc # "returned" => send.txID = TransactionID(stx.Txn))
    /\ [][send.sendBytes # <<>> =>
             /\ send'.sendBytes = send.sendBytes
             /\ send'.sendGroup = send.sendGroup]_vars

\* falcon algorand send with --fee ended with 0: the payment with a flat fee
\* was signed, submitted and confirmed
C23_Witness ==
    /\ cli.cmd = "send"
    /\ cli.exit = 0
    /\ ~cli.running
    /\ send.opt.UseFlatFee
    /\ send.sendBytes[1].Lsig.Args[1].data = TransactionID(send.sendGroup[1])
    /\ Asked("SendRawTransaction") # {}

\* C24: what Send submits is the signed transactions in the order of the
\* group: the payment signed with the derived logic signature, then each
\* filler, once, signed with the dummy logic signature; SendRawTransaction is
\* called once at most, and only when all of them are signed.
C24_SubmitsGroupInOrder ==
    /\ send.sendBytes # <<>> =>
          /\ Len(send.sendBytes) = 1 + dummyTxnNeeded
          /\ Len(send.sendGroup) = 1 + dummyTxnNeeded
          /\ \A i \in DOMAIN send.sendBytes : send.sendBytes[i].Txn = send.sendGroup[i]
          /\ send.sendBytes[1] = SignLogicSigTransaction(send.lsig, send.sendGroup[1]).stx
          /\ send.lsig.Logic # dummyLsigCompiled
          /\ \A i \in 2..Len(send.sendBytes) :
                /\ send.sendBytes[i] = signDummyTxn(send.sendGroup[i])
                /\ send.sendBytes[i].Lsig = [Logic |-> dummyLsigCompiled, Args |-> <<>>]
                /\ send.sendBytes[i].Txn.Note = <<i - 2>>
    /\ Asked("SendRawTransaction") # {} =>
          /\ Asked("SendRawTransaction") = {Len(CallsOfSend) - 1}
          /\ Len(send.sendBytes) = 1 + dummyTxnNeeded

\* the node took the group of four and Send waits for the confirmation
C24_Witness ==
    /\ send.pc = "wait"
    /\ Asked("SendRawTransaction") = {5}
    /\ Len(send.sendBytes) = 4
    /\ send.sendBytes[4].Txn.Note = <<2>>
    /\ send.sendBytes[1].Txn.Sender # send.sendBytes[2].Txn.Sender

\* C25: in every group Send built, each filler has the validity rounds and
\* the genesis of the payment, and the minimum fee the fee of the payment was
\* raised with is that of the parameters the payment was built with.
C25_OneSnapshot ==
    send.sendGroup # <<>> =>
        /\ \A i \in 2..Len(send.sendGroup) :
              /\ send.sendGroup[i].FirstValid = send.sendGroup[1].FirstValid
              /\ send.sendGroup[i].LastValid = send.sendGroup[1].LastValid
              /\ send.sendGroup[i].GenesisID = send.sendGroup[1].GenesisID
        /\ send.groupParams.MinFee = send.sp.MinFee
        /\ send.groupParams.GenesisID = send.sp.GenesisID
        /\ send.groupParams.FirstRoundValid = send.sp.FirstRoundValid

\* C26: after makeSendGroup returned a group, the transaction its pointer
\* argument refers to has the raised fee and the group identifier: it equals
\* the first transaction of the group.
C26_PointerIsFirstOfGroup ==
    send.sendGroup # <<>> =>
        /\ send.sendTxn.Fee = Uint64(send.built.Fee
                                     + Uint64(dummyTxnNeeded * send.groupParams.MinFee))
        /\ send.sendTxn.Group = send.sendGroup[1].Group
        /\ send.sendTxn = send.sendGroup[1]

\* The sum of the fees of the transactions of a group
RECURSIVE SumOfFees(_)
SumOfFees(txns) == IF txns = <<>> THEN 0 ELSE Head(txns).Fee + SumOfFees(Tail(txns))

\* C27: the fees of the transactions of every group Send submits add up to
\* at least 1 + 3 times the minimum fee of the network, whether the fee is the
\* suggested one or a flat fee given by the caller, 0 included.
C27_PooledFeeCoversGroup ==
    Asked("SendRawTransaction") # {} =>
        SumOfFees(send.sendGroup) >= (1 + dummyTxnNeeded) * send.groupParams.MinFee

\* C28: the transactions of a group are pairwise different and so are their
\* identifiers: filler number i, counted from 0, has the note of the one byte i.
C28_GroupMembersDistinct ==
    send.sendGroup # <<>> =>
        LET g == send.sendGroup
        IN  /\ \A i \in 2..Len(g) : g[i].Note = <<i - 2>>
            /\ \A i, j \in DOMAIN g :
                  i # j => /\ g[i] # g[j]
                           /\ TransactionID(g[i]) # TransactionID(g[j])
                           /\ [g[i] EXCEPT !.Group = ZeroDigest]
                                 # [g[j] EXCEPT !.Group = ZeroDigest]

\* the group of a payment of amount 0 with an empty note, as the fillers'
\* amounts are
C28_Witness ==
    /\ Len(send.sendGroup) = 4
    /\ send.sendGroup[1].Amount = 0
    /\ send.sendGroup[1].Note = <<>>
    /\ send.sendGroup[2].Note = <<0>>
    /\ send.sendGroup[4].Note = <<2>>

\* C29: the payment Send builds is sent from the address
\* GetAddressFromPublicKey returns for the public key of the key pair, and the
\* logic signature the payment is signed with is the program that address is
\* the hash of.
C29_SpendsFromDerivedAddress ==
    send.built # NoTransaction =>
        LET derived == GetAddressFromPublicKey(send.publicKey)
        IN  /\ derived.err = "nil"
            /\ send.built.Sender = derived.address
            /\ LogicSigAddress(send.lsig.Logic) = derived.address
            /\ ~isOnTheCurve(send.built.Sender)
            /\ send.sendBytes # <<>> =>
                  /\ send.sendBytes[1].Txn.Sender = derived.address
                  /\ LogicSigAddress(send.sendBytes[1].Lsig.Logic) = derived.address
                  /\ send.sendBytes[1].AuthAddr = ZeroAddress

\* a payment confirmed for a key whose program has the counter 1
C29_Witness ==
    /\ send.pc = "returned"
    /\ send.err = "nil"
    /\ cli.cmd = "none"
    /\ send.lsig.Logic[5] = 1
    /\ send.sendBytes[1].Txn.Sender = LogicSigAddress(send.lsig.Logic)

-----------------------------------------------------------------------------
\* Properties of writeFileAtomic

=============================================================================
